---- MODULE Spec2Model ----
(***************************************************************************)
(* Custom Field Exporter: the field-discovery and association-aggregation  *)
(* run of public/app.js (handleLoad, fetchAllCustomFields,                 *)
(* buildResourceMap, fetchLastUsedDates) as a state machine.               *)
(*                                                                         *)
(* One step of the machine is one turn of the browser's event loop that    *)
(* the run takes part in: the click on the load button, the settling of    *)
(* one pending fetch (together with the synchronous code and the promise   *)
(* continuations that follow it up to the next await of a fetch or of a    *)
(* timer), or the firing of one timer.                                     *)
(*                                                                         *)
(* The upstream service is the variable `upstream`: what the workspace     *)
(* holds (field library, resource listings, attached-field settings, the   *)
(* task the search finds for a field). Whether a request fails and how a   *)
(* collection is cut into pages are chosen when the response arrives.      *)
(***************************************************************************)
EXTENDS Integers, Sequences, FiniteSets, TLC

\* ---------------------------------------------------------------------
\* Bounds of the model
\* ---------------------------------------------------------------------
MaxGid      == 2   \* field identities that settings of small workspaces attach
MaxLib      == 4   \* largest workspace library
MaxProjects == 6   \* longest project listing (wide workspaces)
MaxSmall    == 1   \* longest project listing of a small workspace
MaxAttach   == 1   \* attachments (resource, field) of a small workspace
MaxFaults   == 1   \* failing responses injected into one run
PageLimit   == 2   \* most items upstream puts on one page
MaxRuns     == 2   \* clicks on the load button in a session with reloads
MaxOpens    == 2   \* times the user opens the field detail modal
MaxSessions == 2   \* session ids the session store hands out
MaxRequests == 4   \* requests the browser sends to the server
MaxInflight == 2   \* requests the server handles at the same time
MaxClock    == 2   \* minutes that pass on the server's clock
ExpiresIn   == 2   \* expires_in of the tokens the authorization server
                   \* issues, in minutes

\* ---------------------------------------------------------------------
\* Program constants
\* ---------------------------------------------------------------------
CONCURRENCY   == 5     \* buildResourceMap: settings requests per batch
LU_CONCURRENCY == 3    \* fetchLastUsedDates: search requests per batch

\* JavaScript's undefined and null; a property never written is Undefined.
Undefined == "undefined"
Null      == "null"

\* The three resource categories, in the order handleLoad scans them.
Categories == 1..3
ListEndpoint(c) ==
    IF c = 1 THEN "projects" ELSE IF c = 2 THEN "portfolios" ELSE "goals"

Min(a, b) == IF a < b THEN a ELSE b

\* ---------------------------------------------------------------------
\* Upstream data
\* ---------------------------------------------------------------------
\* A field-detail payload as /api/custom-fields and the settings endpoints
\* deliver it.
Payload(g, glob) == [gid |-> g, is_global_to_workspace |-> glob]

\* A listed resource: /api/projects asks for name and privacy_setting,
\* /api/portfolios and /api/goals for the name only.
Resource(c, j) ==
    [gid |-> j, name |-> j,
     privacy_setting |-> IF c = 1
                         THEN (IF j % 2 = 1 THEN "public_to_workspace" ELSE "private")
                         ELSE Undefined]

\* The library of a workspace with n library fields: identities 1..n.
Library(n) == [k \in 1..n |-> Payload(k, TRUE)]

\* The listing 1..n of a category, optionally with its first resource
\* listed once more at the end (a listing that shifted between two pages).
Listing(c, n, again) ==
    [k \in 1..n |-> Resource(c, k)] \o
    (IF again /\ n > 0 THEN <<Resource(c, 1)>> ELSE <<>>)

\* An attachment <<c, j, g, glob>>: resource j of category c carries field g
\* and its settings payload reports glob for is_global_to_workspace.
RECURSIVE SettingsFrom(_, _, _, _)
SettingsFrom(A, c, j, g) ==
    IF g > MaxLib + 1 THEN <<>>
    ELSE (IF <<c, j, g, FALSE>> \in A THEN <<[custom_field |-> Payload(g, FALSE)]>> ELSE <<>>)
         \o (IF <<c, j, g, TRUE>> \in A THEN <<[custom_field |-> Payload(g, TRUE)]>> ELSE <<>>)
         \o SettingsFrom(A, c, j, g + 1)

\* The top result of the task search for a field that is in use
FoundTask == [modified_at |-> "modified", gid |-> "task"]

\* The data array of /api/search-tasks (limit 1) for field g: fields with an
\* odd identity are set on some task, the others on none.
SearchData(g) == IF g % 2 = 1 THEN <<FoundTask>> ELSE <<>>

World(n, cnt, again, A) ==
    [lib      |-> Library(n),
     listing  |-> [c \in Categories |-> Listing(c, cnt[c], again /\ c = 1)],
     settings |-> [c \in Categories |->
                     [j \in 1..MaxProjects |-> SettingsFrom(A, c, j, 1)]],
     tasks    |-> [g \in 1..(MaxLib + 1) |-> SearchData(g)]]

\* A workspace is described by <<n, cnt, again, A>>: n library fields,
\* cnt[c] resources in category c, the first project listed twice or not,
\* and the attachments A.

\* Small workspaces: up to MaxSmall projects, one portfolio, one goal, a
\* library of up to MaxGid fields, and up to MaxAttach attachments of the
\* fields 1..MaxGid; the settings payloads of one workspace report the same
\* flag for every field.
SmallCounts ==
    {cnt \in [Categories -> 0..MaxSmall] : cnt[2] <= 1 /\ cnt[3] <= 1}
AttachUniverse(cnt, glob) ==
    {a \in Categories \X (1..MaxSmall) \X (1..MaxGid) \X {glob} :
        a[2] <= cnt[a[1]]}
RECURSIVE SubsetsUpTo(_, _)
SubsetsUpTo(U, k) ==
    IF k = 0 THEN {{}}
    ELSE LET P == SubsetsUpTo(U, k - 1)
         IN  P \cup {S \cup {a} : S \in P, a \in U}
AttachSets(cnt, k) ==
    UNION {SubsetsUpTo(AttachUniverse(cnt, glob), k) : glob \in BOOLEAN}
SmallWorlds ==
    UNION {(0..MaxGid) \X {cnt} \X {FALSE} \X AttachSets(cnt, MaxAttach) :
           cnt \in SmallCounts}

\* Shifted listings: the project listing names its first project twice.
ShiftedCounts == {cnt \in SmallCounts : cnt[1] = 1 /\ cnt[2] = 0}
ShiftedWorlds ==
    UNION {(0..1) \X {cnt} \X {TRUE} \X AttachSets(cnt, MaxAttach) :
           cnt \in ShiftedCounts}

\* The workspace of the association example: one field on two projects and
\* on one goal.
ExampleCounts == [c \in Categories |-> IF c = 1 THEN 2 ELSE IF c = 2 THEN 0 ELSE 1]
ExampleWorlds ==
    {<<n, ExampleCounts, FALSE,
       {<<1, 1, g, FALSE>>, <<1, 2, g, FALSE>>, <<3, 1, g, FALSE>>}>> :
        n \in 0..MaxGid, g \in 1..(MaxGid + 1)}

\* Wide workspaces: more projects than one batch holds; the first and the
\* last project carry the same field, which is not in the library.
WideCounts(n) == [c \in Categories |-> IF c = 1 THEN n ELSE 0]
WideWorlds ==
    {<<lib, WideCounts(n), FALSE,
       {<<1, 1, lib + 1, FALSE>>, <<1, n, lib + 1, glob>>}>> :
        n \in (MaxSmall + 1)..MaxProjects, lib \in {0, MaxLib}, glob \in BOOLEAN}

\* Crowded workspaces: one project that carries one field more than a page
\* of its settings collection holds; all of them are in the library, or none.
CrowdedCounts == [c \in Categories |-> IF c = 1 THEN 1 ELSE 0]
CrowdedWorlds ==
    {<<n, CrowdedCounts, FALSE,
       {<<1, 1, g, glob>> : g \in 1..(PageLimit + 1)}>> :
        n \in {0, PageLimit + 1}, glob \in BOOLEAN}

Worlds ==
    SmallWorlds \cup ShiftedWorlds \cup ExampleWorlds \cup WideWorlds
        \cup CrowdedWorlds

\* The workspaces of the sessions in which the data is loaded repeatedly
ReloadWorlds ==
    ExampleWorlds \cup
    {w \in WideWorlds : w[1] = MaxLib /\ w[2] = WideCounts(MaxProjects)}

\* The workspaces of the sessions in which field details are looked at: the
\* association example with a full library and the field outside of it, and
\* a wide workspace in which no field is attached
ModalWorlds ==
    {w \in ExampleWorlds : w[1] = MaxGid /\ \E a \in w[4] : a[3] = MaxGid + 1}
    \cup {<<MaxLib, WideCounts(MaxProjects), FALSE, {}>>}

\* ---------------------------------------------------------------------
\* Server-side values
\* ---------------------------------------------------------------------
\* server.js 99: a token is refreshed from 60 seconds before its expiry
Margin == 1

\* A field of the session, or a parameter of a request, that is not set
\* (undefined); tokens, state values and expiry times are positive numbers
Unset == 0

\* A state parameter that no login has drawn
Forged == -1

\* req.session as the session middleware creates it
EmptySession ==
    [oauthState |-> Unset, accessToken |-> Unset,
     refreshToken |-> Unset, tokenExpiresAt |-> Unset]

\* The session store with session sess saved under id sid
StoreSet(store, sid, sess) ==
    [s \in DOMAIN store \cup {sid} |-> IF s = sid THEN sess ELSE store[s]]

\* The session store with the session of id sid destroyed
StoreDestroy(store, sid) == [s \in DOMAIN store \ {sid} |-> store[s]]

\* No response sent yet
NoReply == [id |-> 0, route |-> "none", status |-> 0, text |-> ""]

\* ---------------------------------------------------------------------
\* State
\* ---------------------------------------------------------------------
VARIABLES
    upstream,            \* what the workspace holds upstream (never changes)
    run,                 \* aggregation runs started so far
    clicks,              \* clicks on the load button the user still makes
    faults,              \* failing responses injected so far
    issued,              \* kinds of request the run has issued so far
    fetched,             \* <<c, j>>: the settings of item j of category c's
                         \* listing were fetched with an OK response
    pc,                  \* the await handleLoad is suspended at, or "idle"
    cat,                 \* category buildResourceMap is running for
    fields,              \* handleLoad: fields
    knownGids,           \* handleLoad: knownGids
    catMaps,             \* handleLoad: projectMap, portfolioMap, goalMap
    lastUsedOpt,         \* includeLastUsed.checked as read in step 4
    progress,            \* the percentage of the latest setProgress call
    progressTop,         \* the highest percentage passed to setProgress in this run
    all,                 \* fetchAllCustomFields: all
    resources,           \* buildResourceMap: resources
    offset,              \* continuation cursor of the running pagination (0: null)
    page,                \* fetchAllCustomFields: page
    map,                 \* buildResourceMap: map
    extraFields,         \* buildResourceMap: extraFields (in insertion order)
    i,                   \* loop variable of the running batch loop
    status,              \* per item of the running batch loop: its request
    batches,             \* batches the running batch loop has started
    pauses,              \* sleeps the running batch loop has started
    customFields,        \* state.customFields
    lastUsedLoaded,      \* state.lastUsedLoaded
    filtered,            \* state.filtered: the rows of the table, as positions
                         \* in state.customFields
    loadBtnDisabled,     \* loadBtn.disabled
    loadingSectionHidden,
    statsBarHidden,
    toolbarHidden,
    tableContainerHidden,
    errorBannerHidden,
    errorMessage,
    hideTimer,           \* a setTimeout of the finally block is pending
    modalHidden,         \* $('#field-modal').hidden
    modalField,          \* index of the field the modal was rendered for (0: none)
    modalLastUsed,       \* content of #modal-last-used
    modalLocCells,       \* content of #loc-last-used-0, -1, ... of the rendered rows
    onDemand,            \* on-demand task searches in flight
    locInfo,             \* last_used, last_used_task_gid of the association
                         \* entries that have _lastUsedFetched
    opens,               \* calls of openFieldModal so far
    sessions,            \* the session store: the saved session of each id
    cookie,              \* session id in the browser's cookie (0: none)
    sids,                \* session ids generated and saved so far
    inflight,            \* requests the server is handling, each suspended at
                         \* a fetch, with the req.session it loaded
    clock,               \* Date.now(), in units of 60 seconds
    minted,              \* token pairs the authorization server has issued
    logins,              \* state values /auth/login has drawn
    arrivals,            \* requests received so far
    reply,               \* the latest response sent
    storedStates,        \* <<sid, state>>: /auth/login stored state in session sid
    accepted,            \* <<sid, state>> of the callbacks that passed the
                         \* state check, in order
    loggedOut            \* ids of the sessions /auth/logout destroyed

ghostVars == <<upstream, run, clicks, faults, issued, fetched>>
runVars   == <<pc, cat, fields, knownGids, catMaps, lastUsedOpt, progress,
               progressTop>>
loopVars  == <<all, resources, offset, page, map, extraFields, i, status, batches,
               pauses>>
stateVars == <<customFields, lastUsedLoaded, filtered>>
uiVars    == <<loadBtnDisabled, loadingSectionHidden, statsBarHidden,
               toolbarHidden, tableContainerHidden, errorBannerHidden,
               errorMessage, hideTimer>>
modalVars == <<modalHidden, modalField, modalLastUsed, modalLocCells, onDemand,
               locInfo, opens>>
serverVars == <<sessions, cookie, sids, inflight, clock, minted, logins,
                arrivals, reply, storedStates, accepted, loggedOut>>
vars == <<ghostVars, runVars, loopVars, stateVars, uiVars, modalVars,
          serverVars>>

\* ---------------------------------------------------------------------
\* Pure parts of the code
\* ---------------------------------------------------------------------
\* A JavaScript object used as a map from field gid to a list: a function
\* whose domain is the set of keys written so far.
EmptyMap == [g \in {} |-> <<>>]
MapGet(m, g) == IF g \in DOMAIN m THEN m[g] ELSE <<>>
\* Variant: the entry replaces the list instead of being appended to it.
MapPush_Overwrite(m, g, e) ==
    [h \in (DOMAIN m) \cup {g} |-> IF h = g THEN <<e>> ELSE m[h]]

\* Variant: only the first entry that arrives for a field is kept.
MapPush_FirstOnly(m, g, e) ==
    [h \in (DOMAIN m) \cup {g} |->
        IF h = g THEN (IF MapGet(m, g) = <<>> THEN <<e>> ELSE m[g]) ELSE m[h]]

MapPush(m, g, e) ==
    [h \in (DOMAIN m) \cup {g} |->
        IF h = g THEN Append(MapGet(m, g), e) ELSE m[h]]

\* Variant: the test for a field already captured in this pass is missing.
HasField_Never(extra, g) == FALSE

\* extraFields[gid] is set
HasField(extra, g) == \E k \in 1..Len(extra) : extra[k].gid = g

GidsOf(flds) == {flds[k].gid : k \in 1..Len(flds)}

\* A value that an if (...) test of the code takes as true: not undefined,
\* not null, not the empty string
Truthy(v) == v \notin {Undefined, Null, ""}

\* Variant: the entry never takes the privacy of the resource.
Entry_NoPrivacy(resource) ==
    [gid |-> resource.gid, name |-> resource.name, privacy |-> Undefined]

\* app.js 350-351: the association entry of a resource; privacy is set
\* if (resource.privacy_setting), and Undefined stands for a key not set
Entry(resource) ==
    [gid |-> resource.gid, name |-> resource.name,
     privacy |-> IF Truthy(resource.privacy_setting)
                 THEN resource.privacy_setting ELSE Undefined]

\* Variant: the knownGids test is missing.
IsUndiscovered_IgnoreKnown(field, known, extra) ==
    /\ ~field.is_global_to_workspace
    /\ ~HasField(extra, field.gid)

\* Variant: fields that report is_global_to_workspace are dropped only.
IsUndiscovered_GlobalOnly(field, known, extra) ==
    /\ field.is_global_to_workspace
    /\ field.gid \notin known
    /\ ~HasField(extra, field.gid)

\* Variant: the is_global_to_workspace test is missing.
IsUndiscovered_AnyFlag(field, known, extra) ==
    /\ field.gid \notin known
    /\ ~HasField(extra, field.gid)

\* app.js 357: the field is to be collected as newly discovered
IsUndiscovered(field, known, extra) ==
    /\ ~field.is_global_to_workspace
    /\ field.gid \notin known
    /\ ~HasField(extra, field.gid)

\* app.js 344-360: the loop over the settings of one resource
RECURSIVE ProcessSettings(_, _, _, _, _)
ProcessSettings(m, extra, known, resource, settings) ==
    IF settings = <<>> THEN [map |-> m, extraFields |-> extra]
    ELSE LET field == Head(settings).custom_field
             m2    == MapPush(m, field.gid, Entry(resource))
             e2    == IF IsUndiscovered(field, known, extra)
                      THEN Append(extra, field) ELSE extra
         IN  ProcessSettings(m2, e2, known, resource, Tail(settings))

\* Variant: knownGids.add(gid) is missing.
MergeKnown_Forget(known, extra) == known

\* app.js 246, 250, 254: for (const [gid, f] of Object.entries(extra))
\*   { fields.push(f); knownGids.add(gid); }
MergeFields(flds, extra) == flds \o extra
MergeKnown(known, extra) == known \cup GidsOf(extra)


\* Variant: the flag is recomputed from the associations (a field that some
\* resource carries counts as not global).
AttachAssociations_Recompute(flds, maps) ==
    [k \in 1..Len(flds) |->
        [gid                    |-> flds[k].gid,
         is_global_to_workspace |-> \A c \in Categories : MapGet(maps[c], flds[k].gid) = <<>>,
         projects               |-> MapGet(maps[1], flds[k].gid),
         portfolios             |-> MapGet(maps[2], flds[k].gid),
         goals                  |-> MapGet(maps[3], flds[k].gid),
         last_used              |-> Undefined,
         last_used_task_gid     |-> Undefined,
         lastUsedFetched        |-> Undefined]]

\* app.js 257-263: attach the association lists to every field
AttachAssociations(flds, maps) ==
    [k \in 1..Len(flds) |->
        [gid                    |-> flds[k].gid,
         is_global_to_workspace |-> flds[k].is_global_to_workspace,
         projects               |-> MapGet(maps[1], flds[k].gid),
         portfolios             |-> MapGet(maps[2], flds[k].gid),
         goals                  |-> MapGet(maps[3], flds[k].gid),
         last_used              |-> Undefined,
         last_used_task_gid     |-> Undefined,
         lastUsedFetched        |-> Undefined]]

\* app.js 799-800 (exportCSV): the Last Used cell of a field
LastUsedCell(f, loaded) ==
    LET lastUsedKnown == loaded \/ f.lastUsedFetched = "true"
    IN  IF f.last_used \notin {Undefined, Null} THEN f.last_used
        ELSE IF lastUsedKnown THEN "Never used" ELSE "Not loaded"

\* One page of a cursor-paginated collection: upstream hands out the next k
\* items after position pos, and a cursor when items remain.
PageItems(coll, pos, k) == SubSeq(coll, pos + 1, Min(pos + k, Len(coll)))
PageCursor(coll, pos, k) == IF pos + k < Len(coll) THEN pos + k ELSE 0

\* server.js 293-307 (likewise 309-339 for portfolios and goals): the
\* settings route asks upstream for { opt_fields, limit: '100' } and takes no
\* offset from the query; app.js 341-344 reads data.data of that one
\* response. The response holds the first page of the collection.
SettingsResponse(w, c, r) == PageItems(w.settings[c][r], 0, PageLimit)

\* Variant: the request never carries the cursor.
RequestCursor_None(off) == 0

\* app.js 302, 325: the cursor the next request carries,
\* (offset ? `&offset=${offset}` : ''); 0 stands for no cursor
RequestCursor(off) == off

\* The items of the batch that starts at index lo (0-based, as in the code):
\* resources.slice(lo, lo + w)
BatchOf(lo, w, n) == (lo + 1)..Min(lo + w, n)

\* Status of the loop's items when the batch at lo is issued.
IssueBatch(st, lo, w) ==
    [j \in DOMAIN st |-> IF j \in BatchOf(lo, w, Len(st)) THEN "pending" ELSE st[j]]

Pending(st) == {j \in DOMAIN st : st[j] = "pending"}

\* Variant: the loop resumes as soon as one promise of the batch settled.
PromiseAllSettled_Any(st, lo, w) ==
    \E j \in BatchOf(lo, w, Len(st)) : st[j] \in {"ok", "notok", "threw"}

\* await Promise.all(batch.map(...)) resumes: every promise of the batch
\* has settled (none of them rejects, each body is wrapped in try/catch).
PromiseAllSettled(st, lo, w) ==
    \A j \in BatchOf(lo, w, Len(st)) : st[j] \in {"ok", "notok", "threw"}

\* Variant: a batch that ends with the last item counts as not the last.
MoreBatches_Inclusive(lo, w, n) == lo + w <= n

\* Variant: the loop bound is off by one.
MoreBatches_OffByOne(lo, w, n) == lo + w + 1 < n

\* app.js 363 / 394: another batch follows
MoreBatches(lo, w, n) == lo + w < n

\* app.js 215-218: the highest percentage after the calls setProgress(calls[1]),
\* setProgress(calls[2]), ... of one step, top being the highest before
RECURSIVE Highest(_, _)
Highest(top, calls) ==
    IF calls = <<>> THEN top
    ELSE Highest(IF Head(calls) > top THEN Head(calls) ELSE top, Tail(calls))

\* app.js 376: 75 + Math.round(((i + CONCURRENCY) / total) * 20), capped at 94
LastUsedPct(lo, total) ==
    Min(75 + ((2 * 20 * (lo + LU_CONCURRENCY) + total) \div (2 * total)), 94)

\* ---------------------------------------------------------------------
\* Continuations of handleLoad (each runs synchronously inside a step)
\* ---------------------------------------------------------------------
ClearLoop ==
    /\ all' = <<>> /\ resources' = <<>> /\ offset' = 0 /\ page' = 0
    /\ map' = EmptyMap /\ extraFields' = <<>>
    /\ i' = 0 /\ status' = <<>> /\ batches' = 0 /\ pauses' = 0

\* Variant: the catch block does not show the error.
Fail_NoBanner(msg) ==
    /\ loadBtnDisabled' = FALSE
    /\ hideTimer' = TRUE
    /\ pc' = "idle"
    /\ fields' = <<>>
    /\ ClearLoop
    /\ UNCHANGED <<cat, knownGids, catMaps, lastUsedOpt, progress, progressTop,
                   issued, fetched>>
    /\ UNCHANGED <<loadingSectionHidden, statsBarHidden, toolbarHidden,
                   tableContainerHidden, errorBannerHidden, errorMessage>>
    /\ UNCHANGED stateVars

\* Variant: the catch block drops the data set.
Fail_ClearData(msg) ==
    /\ errorMessage' = msg
    /\ errorBannerHidden' = FALSE
    /\ loadBtnDisabled' = FALSE
    /\ hideTimer' = TRUE
    /\ pc' = "idle"
    /\ fields' = <<>>
    /\ ClearLoop
    /\ customFields' = <<>> /\ filtered' = <<>>
    /\ UNCHANGED <<cat, knownGids, catMaps, lastUsedOpt, progress, progressTop,
                   issued, fetched>>
    /\ UNCHANGED <<loadingSectionHidden, statsBarHidden, toolbarHidden,
                   tableContainerHidden>>
    /\ UNCHANGED lastUsedLoaded

\* Variant: the finally block does not re-enable the load button.
Fail_KeepDisabled(msg) ==
    /\ errorMessage' = msg
    /\ errorBannerHidden' = FALSE
    /\ hideTimer' = TRUE
    /\ pc' = "idle"
    /\ fields' = <<>>
    /\ ClearLoop
    /\ UNCHANGED <<cat, knownGids, catMaps, lastUsedOpt, progress, progressTop,
                   issued, fetched>>
    /\ UNCHANGED <<loadBtnDisabled, loadingSectionHidden, statsBarHidden,
                   toolbarHidden, tableContainerHidden>>
    /\ UNCHANGED stateVars

\* app.js 286-291: catch (err) { showError(err.message) } finally { ... }
Fail(msg) ==
    /\ errorMessage' = msg
    /\ errorBannerHidden' = FALSE
    /\ loadBtnDisabled' = FALSE
    /\ hideTimer' = TRUE
    /\ pc' = "idle"
    /\ fields' = <<>>
    /\ ClearLoop
    /\ UNCHANGED <<cat, knownGids, catMaps, lastUsedOpt, progress, progressTop,
                   issued, fetched>>
    /\ UNCHANGED <<loadingSectionHidden, statsBarHidden, toolbarHidden,
                   tableContainerHidden>>
    /\ UNCHANGED stateVars

\* The name of a field: upstream names field g "g", as it names the resources
FieldName(f) == f.gid

\* app.js 508-516: [...list].sort by getSortValue(f, 'name'), ascending and
\* stable; S holds the positions still to be placed
RECURSIVE SortRows(_, _)
SortRows(flds, S) ==
    IF S = {} THEN <<>>
    ELSE LET k == CHOOSE a \in S :
                      \A b \in S :
                          \/ FieldName(flds[a]) < FieldName(flds[b])
                          \/ FieldName(flds[a]) = FieldName(flds[b]) /\ a <= b
         IN  <<k>> \o SortRows(flds, S \ {k})

\* app.js 464-518 (applyFiltersAndRender) with the filters and the sort
\* column as the page sets them up (no search text, all types, all scopes,
\* no creator excluded, sorted by name): state.filtered
ApplyFilters(flds) == SortRows(flds, 1..Len(flds))

\* Variant: the result is added to state.customFields, not assigned to it.
Publish_Accumulate(flds, known, maps, opt, loaded) ==
    /\ customFields' = customFields \o flds
    /\ filtered' = ApplyFilters(customFields \o flds)
    /\ lastUsedLoaded' = loaded
    /\ progress' = 100
    /\ progressTop' = Highest(progressTop, <<100>>)
    /\ statsBarHidden' = FALSE
    /\ toolbarHidden' = FALSE
    /\ tableContainerHidden' = FALSE
    /\ loadBtnDisabled' = FALSE
    /\ hideTimer' = TRUE
    /\ pc' = "idle"
    /\ fields' = <<>>
    /\ knownGids' = known
    /\ catMaps' = maps
    /\ lastUsedOpt' = opt
    /\ ClearLoop
    /\ UNCHANGED <<cat, issued, fetched>>
    /\ UNCHANGED <<loadingSectionHidden, errorBannerHidden, errorMessage>>

\* Variant: state.lastUsedLoaded is set whether or not step 4 ran.
Publish_AlwaysLoaded(flds, known, maps, opt, loaded) ==
    /\ customFields' = flds
    /\ filtered' = ApplyFilters(flds)
    /\ lastUsedLoaded' = TRUE
    /\ progress' = 100
    /\ progressTop' = Highest(progressTop, <<100>>)
    /\ statsBarHidden' = FALSE
    /\ toolbarHidden' = FALSE
    /\ tableContainerHidden' = FALSE
    /\ loadBtnDisabled' = FALSE
    /\ hideTimer' = TRUE
    /\ pc' = "idle"
    /\ fields' = <<>>
    /\ knownGids' = known
    /\ catMaps' = maps
    /\ lastUsedOpt' = opt
    /\ ClearLoop
    /\ UNCHANGED <<cat, issued, fetched>>
    /\ UNCHANGED <<loadingSectionHidden, errorBannerHidden, errorMessage>>

\* app.js 272-285 and the finally block 288-291
Publish(flds, known, maps, opt, loaded) ==
    /\ customFields' = flds
    /\ filtered' = ApplyFilters(flds)
    /\ lastUsedLoaded' = loaded
    /\ progress' = 100
    /\ progressTop' = Highest(progressTop, <<100>>)
    /\ statsBarHidden' = FALSE
    /\ toolbarHidden' = FALSE
    /\ tableContainerHidden' = FALSE
    /\ loadBtnDisabled' = FALSE
    /\ hideTimer' = TRUE
    /\ pc' = "idle"
    /\ fields' = <<>>
    /\ knownGids' = known
    /\ catMaps' = maps
    /\ lastUsedOpt' = opt
    /\ ClearLoop
    /\ UNCHANGED <<cat, issued, fetched>>
    /\ UNCHANGED <<loadingSectionHidden, errorBannerHidden, errorMessage>>

\* app.js 244, 248, 252: setProgress before each category
CategoryPct(c) == IF c = 1 THEN 25 ELSE IF c = 2 THEN 45 ELSE 60

\* app.js 244-245/248-249/252-253 into 320-326: setProgress and the call of
\* buildResourceMap for category c up to its first await fetch of the
\* listing; pre: the percentages passed to setProgress earlier in the step
StartCategory(c, flds, known, maps, pre) ==
    /\ pc' = "listing"
    /\ cat' = c
    /\ fields' = flds
    /\ knownGids' = known
    /\ catMaps' = maps
    /\ progress' = CategoryPct(c)
    /\ progressTop' = Highest(progressTop, pre \o <<CategoryPct(c)>>)
    /\ ClearLoop
    /\ issued' = issued \cup {"listing"}
    /\ UNCHANGED <<lastUsedOpt, fetched>>
    /\ UNCHANGED stateVars
    /\ UNCHANGED uiVars

\* app.js 266-270 into 369-382: step 4 with the option checked
StartLastUsed(flds, known, maps) ==
    IF Len(flds) = 0
    THEN Publish(flds, known, maps, "on", TRUE)
    ELSE /\ pc' = "search"
         /\ fields' = flds
         /\ knownGids' = known
         /\ catMaps' = maps
         /\ lastUsedOpt' = "on"
         /\ progress' = LastUsedPct(0, Len(flds))
         /\ progressTop' = Highest(progressTop, <<75, LastUsedPct(0, Len(flds))>>)
         /\ all' = <<>> /\ resources' = <<>> /\ offset' = 0 /\ page' = 0
         /\ map' = EmptyMap /\ extraFields' = <<>>
         /\ i' = 0
         /\ status' = IssueBatch([j \in 1..Len(flds) |-> "unissued"], 0, LU_CONCURRENCY)
         /\ batches' = 1
         /\ pauses' = 0
         /\ issued' = issued \cup {"search"}
         /\ UNCHANGED <<cat, fetched>>
         /\ UNCHANGED stateVars
         /\ UNCHANGED uiVars

\* app.js 256-274: steps 3 and 4 after the goals category has returned
AttachAndEnrich(flds, known, maps) ==
    LET attached == AttachAssociations(flds, maps)
    IN  \E checked \in BOOLEAN :
           IF checked
           THEN StartLastUsed(attached, known, maps)
           ELSE Publish(attached, known, maps, "off", lastUsedLoaded)

\* Variant: the goals are scanned right after the projects.
FinishCategory_SkipPortfolios(c, m, extra) ==
    LET flds  == MergeFields(fields, extra)
        known == MergeKnown(knownGids, extra)
        maps  == [catMaps EXCEPT ![c] = m]
    IN  IF c < 3
        THEN StartCategory(3, flds, known, maps, <<>>)
        ELSE AttachAndEnrich(flds, known, maps)

\* Variant: steps 3 and 4 follow the portfolios; the goals are never scanned.
FinishCategory_SkipGoals(c, m, extra) ==
    LET flds  == MergeFields(fields, extra)
        known == MergeKnown(knownGids, extra)
        maps  == [catMaps EXCEPT ![c] = m]
    IN  IF c < 2
        THEN StartCategory(c + 1, flds, known, maps, <<>>)
        ELSE AttachAndEnrich(flds, known, maps)

\* buildResourceMap for category c returned { map: m, extraFields: extra }:
\* app.js 246/250/254, then the next category or steps 3 and 4
FinishCategory(c, m, extra) ==
    LET flds  == MergeFields(fields, extra)
        known == MergeKnown(knownGids, extra)
        maps  == [catMaps EXCEPT ![c] = m]
    IN  IF c < 3
        THEN StartCategory(c + 1, flds, known, maps, <<>>)
        ELSE AttachAndEnrich(flds, known, maps)

\* ---------------------------------------------------------------------
\* Steps
\* ---------------------------------------------------------------------
\* The page after it has loaded, in a workspace of the family W, the user
\* going to press the load button n times
Loaded(W, n) ==
    /\ \E w \in W : upstream = World(w[1], w[2], w[3], w[4])
    /\ run = 0
    /\ clicks = n
    /\ faults = 0
    /\ issued = {}
    /\ fetched = {}
    /\ pc = "idle"
    /\ cat = 0
    /\ fields = <<>>
    /\ knownGids = {}
    /\ catMaps = [c \in Categories |-> EmptyMap]
    /\ lastUsedOpt = "unread"
    /\ progress = 0
    /\ progressTop = 0
    /\ all = <<>> /\ resources = <<>> /\ offset = 0 /\ page = 0
    /\ map = EmptyMap /\ extraFields = <<>>
    /\ i = 0 /\ status = <<>> /\ batches = 0 /\ pauses = 0
    /\ customFields = <<>>
    /\ lastUsedLoaded = FALSE
    /\ filtered = <<>>
    /\ loadBtnDisabled = FALSE
    /\ loadingSectionHidden = TRUE
    /\ statsBarHidden = TRUE
    /\ toolbarHidden = TRUE
    /\ tableContainerHidden = TRUE
    /\ errorBannerHidden = TRUE
    /\ errorMessage = ""
    /\ hideTimer = FALSE
    /\ modalHidden = TRUE
    /\ modalField = 0
    /\ modalLastUsed = ""
    /\ modalLocCells = <<>>
    /\ onDemand = {}
    /\ locInfo = {}
    /\ opens = 0
    /\ sessions = <<>>
    /\ cookie = 0
    /\ sids = 0
    /\ inflight = {}
    /\ clock = 0
    /\ minted = 0
    /\ logins = 0
    /\ arrivals = 0
    /\ reply = NoReply
    /\ storedStates = {}
    /\ accepted = <<>>
    /\ loggedOut = {}

\* A session in which the data is loaded once
Init == Loaded(Worlds, 1)

\* A session in which the data is loaded again and again
InitReload == Loaded(ReloadWorlds, MaxRuns)

\* Variant: the handler does not reset state.lastUsedLoaded.
HandleLoad_KeepLoaded ==
    /\ UNCHANGED modalVars
    /\ UNCHANGED serverVars
    /\ pc = "idle" /\ clicks > 0 /\ ~loadBtnDisabled
    /\ run' = run + 1
    /\ clicks' = clicks - 1
    /\ lastUsedLoaded' = lastUsedLoaded
    /\ loadBtnDisabled' = TRUE
    /\ loadingSectionHidden' = FALSE
    /\ statsBarHidden' = TRUE
    /\ toolbarHidden' = TRUE
    /\ tableContainerHidden' = TRUE
    /\ all' = <<>> /\ offset' = 0 /\ page' = 1
    /\ progress' = Min(1 * 5, 20)
    /\ progressTop' = Highest(0, <<0, Min(1 * 5, 20)>>)
    /\ issued' = {"library"}
    /\ fetched' = {}
    /\ pc' = "library"
    /\ UNCHANGED <<upstream, faults>>
    /\ UNCHANGED <<cat, fields, knownGids, catMaps, lastUsedOpt>>
    /\ UNCHANGED <<resources, map, extraFields, i, status, batches, pauses>>
    /\ UNCHANGED <<customFields, filtered, errorBannerHidden, errorMessage, hideTimer>>

\* Variant: the handler does not disable the load button.
HandleLoad_KeepEnabled ==
    /\ UNCHANGED modalVars
    /\ UNCHANGED serverVars
    /\ pc = "idle" /\ clicks > 0 /\ ~loadBtnDisabled
    /\ run' = run + 1
    /\ clicks' = clicks - 1
    /\ lastUsedLoaded' = FALSE
    /\ loadBtnDisabled' = loadBtnDisabled
    /\ loadingSectionHidden' = FALSE
    /\ statsBarHidden' = TRUE
    /\ toolbarHidden' = TRUE
    /\ tableContainerHidden' = TRUE
    /\ all' = <<>> /\ offset' = 0 /\ page' = 1
    /\ progress' = Min(1 * 5, 20)
    /\ progressTop' = Highest(0, <<0, Min(1 * 5, 20)>>)
    /\ issued' = {"library"}
    /\ fetched' = {}
    /\ pc' = "library"
    /\ UNCHANGED <<upstream, faults>>
    /\ UNCHANGED <<cat, fields, knownGids, catMaps, lastUsedOpt>>
    /\ UNCHANGED <<resources, map, extraFields, i, status, batches, pauses>>
    /\ UNCHANGED <<customFields, filtered, errorBannerHidden, errorMessage, hideTimer>>

\* app.js 220-236 into 294-303: the click on the load button, up to the
\* first await fetch of fetchAllCustomFields. (With no workspace selected
\* the handler returns at once and changes nothing.)
HandleLoad ==
    /\ UNCHANGED modalVars
    /\ UNCHANGED serverVars
    /\ pc = "idle" /\ clicks > 0 /\ ~loadBtnDisabled
    /\ run' = run + 1
    /\ clicks' = clicks - 1
    /\ lastUsedLoaded' = FALSE
    /\ loadBtnDisabled' = TRUE
    /\ loadingSectionHidden' = FALSE
    /\ statsBarHidden' = TRUE
    /\ toolbarHidden' = TRUE
    /\ tableContainerHidden' = TRUE
    /\ all' = <<>> /\ offset' = 0 /\ page' = 1
    /\ progress' = Min(1 * 5, 20)
    /\ progressTop' = Highest(0, <<0, Min(1 * 5, 20)>>)
    /\ issued' = {"library"}
    /\ fetched' = {}
    /\ pc' = "library"
    /\ UNCHANGED <<upstream, faults>>
    /\ UNCHANGED <<cat, fields, knownGids, catMaps, lastUsedOpt>>
    /\ UNCHANGED <<resources, map, extraFields, i, status, batches, pauses>>
    /\ UNCHANGED <<customFields, filtered, errorBannerHidden, errorMessage, hideTimer>>

\* app.js 303-312, and 314 with 237-245 after the last page
LibraryPageOk ==
    /\ UNCHANGED modalVars
    /\ UNCHANGED serverVars
    /\ pc = "library"
    /\ \E k \in 1..PageLimit :
          LET got  == all \o PageItems(upstream.lib, RequestCursor(offset), k)
              next == PageCursor(upstream.lib, RequestCursor(offset), k)
          IN  IF next # 0
              THEN /\ all' = got
                   /\ offset' = next
                   /\ page' = page + 1
                   /\ progress' = Min((page + 1) * 5, 20)
                   /\ progressTop' = Highest(progressTop, <<Min((page + 1) * 5, 20)>>)
                   /\ UNCHANGED <<pc, cat, fields, knownGids, catMaps, lastUsedOpt>>
                   /\ UNCHANGED <<resources, map, extraFields, i, status, batches, pauses>>
                   /\ UNCHANGED <<issued, fetched>>
                   /\ UNCHANGED stateVars
                   /\ UNCHANGED uiVars
              ELSE StartCategory(1, got, GidsOf(got), catMaps, <<40>>)
    /\ UNCHANGED <<upstream, run, clicks, faults>>

\* app.js 304-307 (response not OK) or a rejected fetch / res.json()
LibraryPageFailed ==
    /\ UNCHANGED modalVars
    /\ UNCHANGED serverVars
    /\ pc = "library"
    /\ faults < MaxFaults
    /\ faults' = faults + 1
    /\ \E msg \in {"Failed to load custom fields", "Failed to fetch"} : Fail(msg)
    /\ UNCHANGED <<upstream, run, clicks>>

\* app.js 326-331, and 333-339 after the last page
ListingPageOk ==
    /\ UNCHANGED modalVars
    /\ UNCHANGED serverVars
    /\ pc = "listing"
    /\ \E k \in 1..PageLimit :
          LET coll == upstream.listing[cat]
              got  == resources \o PageItems(coll, RequestCursor(offset), k)
              next == PageCursor(coll, RequestCursor(offset), k)
          IN  IF next # 0
              THEN /\ resources' = got
                   /\ offset' = next
                   /\ UNCHANGED <<runVars, all, page, map, extraFields, i, status, batches, pauses>>
                   /\ UNCHANGED <<issued, fetched>>
                   /\ UNCHANGED stateVars
                   /\ UNCHANGED uiVars
              ELSE IF Len(got) = 0
              THEN FinishCategory(cat, EmptyMap, <<>>)
              ELSE /\ resources' = got
                   /\ offset' = 0
                   /\ map' = EmptyMap
                   /\ extraFields' = <<>>
                   /\ i' = 0
                   /\ status' = IssueBatch([j \in 1..Len(got) |-> "unissued"], 0, CONCURRENCY)
                   /\ batches' = 1
                   /\ pauses' = 0
                   /\ pc' = "settings"
                   /\ issued' = issued \cup {"settings"}
                   /\ UNCHANGED fetched
                   /\ UNCHANGED <<cat, fields, knownGids, catMaps, lastUsedOpt, progress, progressTop>>
                   /\ UNCHANGED <<all, page>>
                   /\ UNCHANGED stateVars
                   /\ UNCHANGED uiVars
    /\ UNCHANGED <<upstream, run, clicks, faults>>

\* Variant: a non-OK page ends the paging only; the resources of the pages
\* fetched before it are scanned.
ListingPageNotOk_KeepPages ==
    /\ UNCHANGED modalVars
    /\ UNCHANGED serverVars
    /\ pc = "listing"
    /\ faults < MaxFaults
    /\ faults' = faults + 1
    /\ IF Len(resources) = 0
       THEN FinishCategory(cat, EmptyMap, <<>>)
       ELSE /\ offset' = 0
            /\ map' = EmptyMap
            /\ extraFields' = <<>>
            /\ i' = 0
            /\ status' = IssueBatch([j \in 1..Len(resources) |-> "unissued"], 0, CONCURRENCY)
            /\ batches' = 1
            /\ pauses' = 0
            /\ pc' = "settings"
            /\ issued' = issued \cup {"settings"}
            /\ UNCHANGED fetched
            /\ UNCHANGED <<cat, fields, knownGids, catMaps, lastUsedOpt, progress, progressTop>>
            /\ UNCHANGED <<all, page, resources>>
            /\ UNCHANGED stateVars
            /\ UNCHANGED uiVars
    /\ UNCHANGED <<upstream, run, clicks>>

\* app.js 327: if (!res.ok) return { map: {}, extraFields: {} }
ListingPageNotOk ==
    /\ UNCHANGED modalVars
    /\ UNCHANGED serverVars
    /\ pc = "listing"
    /\ faults < MaxFaults
    /\ faults' = faults + 1
    /\ FinishCategory(cat, EmptyMap, <<>>)
    /\ UNCHANGED <<upstream, run, clicks>>

\* app.js 326/328: the fetch of a listing page (or res.json()) rejects;
\* nothing in buildResourceMap catches it, so handleLoad's catch runs
ListingPageThrew ==
    /\ UNCHANGED modalVars
    /\ UNCHANGED serverVars
    /\ pc = "listing"
    /\ faults < MaxFaults
    /\ faults' = faults + 1
    /\ Fail("Failed to fetch")
    /\ UNCHANGED <<upstream, run, clicks>>

\* app.js 340-361: the settings request of item j settles
SettingsSettled(j) ==
    /\ UNCHANGED modalVars
    /\ UNCHANGED serverVars
    /\ pc = "settings"
    /\ j \in Pending(status)
    /\ \/ LET r == ProcessSettings(map, extraFields, knownGids, resources[j],
                                   SettingsResponse(upstream, cat, resources[j].gid))
          IN  /\ map' = r.map
              /\ extraFields' = r.extraFields
              /\ status' = [status EXCEPT ![j] = "ok"]
              /\ fetched' = fetched \cup {<<cat, j>>}
              /\ faults' = faults
       \/ /\ faults < MaxFaults
          /\ faults' = faults + 1
          /\ \E outcome \in {"notok", "threw"} :
                status' = [status EXCEPT ![j] = outcome]
          /\ UNCHANGED <<map, extraFields, fetched>>
    /\ UNCHANGED <<upstream, run, clicks, issued>>
    /\ UNCHANGED runVars
    /\ UNCHANGED <<all, resources, offset, page, i, batches, pauses>>
    /\ UNCHANGED stateVars
    /\ UNCHANGED uiVars

\* app.js 339/363-366: Promise.all of the batch resumes the loop
BatchSettled ==
    /\ UNCHANGED modalVars
    /\ UNCHANGED serverVars
    /\ pc = "settings"
    /\ PromiseAllSettled(status, i, CONCURRENCY)
    /\ IF MoreBatches(i, CONCURRENCY, Len(resources))
       THEN /\ pc' = "sleep"
            /\ pauses' = pauses + 1
            /\ UNCHANGED <<cat, fields, knownGids, catMaps, lastUsedOpt, progress, progressTop>>
            /\ UNCHANGED <<all, resources, offset, page, map, extraFields, i, status, batches>>
            /\ UNCHANGED <<issued, fetched>>
            /\ UNCHANGED stateVars
            /\ UNCHANGED uiVars
       ELSE FinishCategory(cat, map, extraFields)
    /\ UNCHANGED <<upstream, run, clicks, faults>>

\* app.js 363, 337-341: sleep(200) is over, the next batch is issued
SleepDone ==
    /\ UNCHANGED modalVars
    /\ UNCHANGED serverVars
    /\ pc = "sleep"
    /\ i' = i + CONCURRENCY
    /\ status' = IssueBatch(status, i + CONCURRENCY, CONCURRENCY)
    /\ batches' = batches + 1
    /\ pauses' = pauses
    /\ pc' = "settings"
    /\ UNCHANGED <<upstream, run, clicks, faults, issued, fetched>>
    /\ UNCHANGED <<cat, fields, knownGids, catMaps, lastUsedOpt, progress, progressTop>>
    /\ UNCHANGED <<all, resources, offset, page, map, extraFields>>
    /\ UNCHANGED stateVars
    /\ UNCHANGED uiVars

\* Variant: a failed request leaves the field as it was.
LastUsedResult_SkipFailed(field, ok, data) ==
    IF ~ok
    THEN field
    ELSE IF Len(data) > 0
    THEN [field EXCEPT !.last_used = data[1].modified_at,
                       !.last_used_task_gid = data[1].gid]
    ELSE [field EXCEPT !.last_used = Null, !.last_used_task_gid = Null]

\* Variant: the task of the top result is not recorded.
LastUsedResult_NoTask(field, ok, data) ==
    IF ~ok
    THEN [field EXCEPT !.last_used = Null]
    ELSE IF Len(data) > 0
    THEN [field EXCEPT !.last_used = data[1].modified_at]
    ELSE [field EXCEPT !.last_used = Null, !.last_used_task_gid = Null]

\* app.js 383-389: what the settled search request writes into the field;
\* ok: the response was OK (and nothing threw), data: its data array.
LastUsedResult(field, ok, data) ==
    IF ~ok
    THEN [field EXCEPT !.last_used = Null]
    ELSE IF Len(data) > 0
    THEN [field EXCEPT !.last_used = data[1].modified_at,
                       !.last_used_task_gid = data[1].gid]
    ELSE [field EXCEPT !.last_used = Null, !.last_used_task_gid = Null]

SearchSettled(j) ==
    /\ UNCHANGED modalVars
    /\ UNCHANGED serverVars
    /\ pc = "search"
    /\ j \in Pending(status)
    /\ \/ /\ fields' = [fields EXCEPT ![j] =
                            LastUsedResult(fields[j], TRUE, upstream.tasks[fields[j].gid])]
          /\ status' = [status EXCEPT ![j] = "ok"]
          /\ faults' = faults
       \/ /\ faults < MaxFaults
          /\ faults' = faults + 1
          /\ fields' = [fields EXCEPT ![j] = LastUsedResult(fields[j], FALSE, <<>>)]
          /\ \E outcome \in {"notok", "threw"} :
                status' = [status EXCEPT ![j] = outcome]
    /\ UNCHANGED <<upstream, run, clicks, issued, fetched>>
    /\ UNCHANGED <<pc, cat, knownGids, catMaps, lastUsedOpt, progress, progressTop>>
    /\ UNCHANGED <<all, resources, offset, page, map, extraFields, i, batches, pauses>>
    /\ UNCHANGED stateVars
    /\ UNCHANGED uiVars

\* app.js 379/394-397, then 269-274: Promise.all of the batch resumes
LastUsedBatchSettled ==
    /\ UNCHANGED modalVars
    /\ UNCHANGED serverVars
    /\ pc = "search"
    /\ PromiseAllSettled(status, i, LU_CONCURRENCY)
    /\ IF MoreBatches(i, LU_CONCURRENCY, Len(fields))
       THEN /\ pc' = "luSleep"
            /\ pauses' = pauses + 1
            /\ UNCHANGED <<cat, fields, knownGids, catMaps, lastUsedOpt, progress, progressTop>>
            /\ UNCHANGED <<all, resources, offset, page, map, extraFields, i, status, batches>>
            /\ UNCHANGED <<issued, fetched>>
            /\ UNCHANGED stateVars
            /\ UNCHANGED uiVars
       ELSE Publish(fields, knownGids, catMaps, "on", TRUE)
    /\ UNCHANGED <<upstream, run, clicks, faults>>

\* app.js 395, 374-382: sleep(DELAY) is over, the next batch is issued
LastUsedSleepDone ==
    /\ UNCHANGED modalVars
    /\ UNCHANGED serverVars
    /\ pc = "luSleep"
    /\ i' = i + LU_CONCURRENCY
    /\ status' = IssueBatch(status, i + LU_CONCURRENCY, LU_CONCURRENCY)
    /\ batches' = batches + 1
    /\ pauses' = pauses
    /\ progress' = LastUsedPct(i + LU_CONCURRENCY, Len(fields))
    /\ progressTop' = Highest(progressTop, <<LastUsedPct(i + LU_CONCURRENCY, Len(fields))>>)
    /\ pc' = "search"
    /\ UNCHANGED <<upstream, run, clicks, faults, issued, fetched>>
    /\ UNCHANGED <<cat, fields, knownGids, catMaps, lastUsedOpt>>
    /\ UNCHANGED <<all, resources, offset, page, map, extraFields>>
    /\ UNCHANGED stateVars
    /\ UNCHANGED uiVars

\* app.js 290: setTimeout(() => { loadingSection.hidden = true; }, 600)
HideLoading ==
    /\ UNCHANGED modalVars
    /\ UNCHANGED serverVars
    /\ hideTimer
    /\ hideTimer' = FALSE
    /\ loadingSectionHidden' = TRUE
    /\ UNCHANGED ghostVars
    /\ UNCHANGED runVars
    /\ UNCHANGED loopVars
    /\ UNCHANGED stateVars
    /\ UNCHANGED <<loadBtnDisabled, statsBarHidden, toolbarHidden,
                   tableContainerHidden, errorBannerHidden, errorMessage>>

Next ==
    \/ HandleLoad
    \/ LibraryPageOk
    \/ LibraryPageFailed
    \/ ListingPageOk
    \/ ListingPageNotOk
    \/ ListingPageThrew
    \/ \E j \in 1..(MaxProjects + 1) : SettingsSettled(j)
    \/ BatchSettled
    \/ SleepDone
    \/ \E j \in 1..(MaxLib + 2) : SearchSettled(j)
    \/ LastUsedBatchSettled
    \/ LastUsedSleepDone
    \/ HideLoading

Spec == Init /\ [][Next]_vars

\* The same program in a session with reloads
SpecReload == InitReload /\ [][Next]_vars

\* Every request of a run settles (with a response or a rejection) and every
\* timer fires: the steps of the event loop that a run in flight waits for.
\* The click on the load button is the user's and is not forced.
Settle ==
    \/ LibraryPageOk
    \/ LibraryPageFailed
    \/ ListingPageOk
    \/ ListingPageNotOk
    \/ ListingPageThrew
    \/ \E j \in 1..(MaxProjects + 1) : SettingsSettled(j)
    \/ BatchSettled
    \/ SleepDone
    \/ \E j \in 1..(MaxLib + 2) : SearchSettled(j)
    \/ LastUsedBatchSettled
    \/ LastUsedSleepDone

\* One load under an event loop in which pending requests settle and timers
\* fire
InitFair == Loaded(ReloadWorlds, 1)
SpecFair ==
    InitFair /\ [][Next]_vars /\ WF_vars(Settle) /\ WF_vars(HideLoading)

\* ---------------------------------------------------------------------
\* The field detail modal
\* ---------------------------------------------------------------------
\* The association list of field f for category c
ListOf(f, c) == IF c = 1 THEN f.projects ELSE IF c = 2 THEN f.portfolios ELSE f.goals

\* Upstream: the data array of /api/search-tasks (limit 1) for field g
\* restricted to project p
LocSearchData(g, p) == IF (g + p) % 2 = 0 THEN <<FoundTask>> ELSE <<>>

\* app.js 599-614 (formatLastUsed): the cell shows "Never / Unknown" for a
\* date that is not set, and the date with the link to the task otherwise
FormatLastUsed(dateStr, taskGid) ==
    IF ~Truthy(dateStr) THEN "Never / Unknown" ELSE <<dateStr, taskGid>>

\* Variant: the finally block is missing; only a request that went through
\* marks its target.
OnDemandResult_NoFinally(ok, data) ==
    IF ~ok
    THEN [last_used |-> Null, last_used_task_gid |-> Null, lastUsedFetched |-> Undefined]
    ELSE IF Len(data) > 0
    THEN [last_used          |-> IF Truthy(data[1].modified_at) THEN data[1].modified_at ELSE Null,
          last_used_task_gid |-> IF Truthy(data[1].gid) THEN data[1].gid ELSE Null,
          lastUsedFetched    |-> "true"]
    ELSE [last_used |-> Null, last_used_task_gid |-> Null, lastUsedFetched |-> "true"]

\* app.js 728-740 and 745-757: what a settled on-demand request writes into
\* its target; ok: the response was OK and nothing threw, data: its data array
OnDemandResult(ok, data) ==
    IF ~ok
    THEN [last_used |-> Null, last_used_task_gid |-> Null, lastUsedFetched |-> "true"]
    ELSE IF Len(data) > 0
    THEN [last_used          |-> IF Truthy(data[1].modified_at) THEN data[1].modified_at ELSE Null,
          last_used_task_gid |-> IF Truthy(data[1].gid) THEN data[1].gid ELSE Null,
          lastUsedFetched    |-> "true"]
    ELSE [last_used |-> Null, last_used_task_gid |-> Null, lastUsedFetched |-> "true"]

\* app.js 663-667: allLocs, the rows of the locations table: the projects,
\* then the portfolios, then the goals of the field; c is the category and k
\* the position of the entry in the field's list of that category
LocRows(field) ==
    [k \in 1..Len(field.projects) |-> [c |-> 1, k |-> k]] \o
    [k \in 1..Len(field.portfolios) |-> [c |-> 2, k |-> k]] \o
    [k \in 1..Len(field.goals) |-> [c |-> 3, k |-> k]]

\* item.ref._lastUsedFetched and the values recorded on the entry
LocFetched(f, c, k) == \E r \in locInfo : r.f = f /\ r.c = c /\ r.k = k
LocRecord(f, c, k) == CHOOSE r \in locInfo : r.f = f /\ r.c = c /\ r.k = k

\* app.js 675-680: the Last Used cell of a row of the locations table
LocCell(f, row) ==
    IF row.c = 1
    THEN (IF LocFetched(f, row.c, row.k)
          THEN FormatLastUsed(LocRecord(f, row.c, row.k).last_used,
                              LocRecord(f, row.c, row.k).last_used_task_gid)
          ELSE "Loading")
    ELSE "dash"

\* Variant: every row of the locations table is queried.
LocationRequests_AllRows(f, rows, n) ==
    {[f |-> f, c |-> rows[x].c, k |-> rows[x].k, idx |-> x - 1, n |-> n] :
        x \in {y \in 1..Len(rows) : ~LocFetched(f, rows[y].c, rows[y].k)}}

\* app.js 713-715 with 744: the per-location requests that openFieldModal
\* issues, for the rows of projects that are not marked as fetched; idx is
\* the row index and n the call of openFieldModal that issued the request
LocationRequests(f, rows, n) ==
    {[f |-> f, c |-> rows[x].c, k |-> rows[x].k, idx |-> x - 1, n |-> n] :
        x \in {y \in 1..Len(rows) :
                  rows[y].c = 1 /\ ~LocFetched(f, rows[y].c, rows[y].k)}}

\* app.js 132-137 into 627-722: a click on the name of field f in the table
\* (the open modal covers the table), up to the await fetch of every
\* on-demand request it starts; a workspace is selected
OpenFieldModal(f) ==
    /\ UNCHANGED serverVars
    /\ ~tableContainerHidden /\ modalHidden
    /\ f \in 1..Len(customFields)
    /\ opens < MaxOpens
    /\ opens' = opens + 1
    /\ LET field         == customFields[f]
           lastUsedKnown == lastUsedLoaded \/ field.lastUsedFetched = "true"
           rows          == LocRows(field)
       IN  /\ modalField' = f
           /\ modalLastUsed' =
                 IF lastUsedKnown
                 THEN FormatLastUsed(field.last_used, field.last_used_task_gid)
                 ELSE "Loading"
           /\ modalLocCells' = [x \in 1..Len(rows) |-> LocCell(f, rows[x])]
           /\ onDemand' = onDemand
                 \cup (IF lastUsedKnown THEN {}
                       ELSE {[f |-> f, c |-> 0, k |-> 0, idx |-> 0, n |-> opens + 1]})
                 \cup LocationRequests(f, rows, opens + 1)
    /\ modalHidden' = FALSE
    /\ UNCHANGED <<locInfo, ghostVars, runVars, loopVars, stateVars, uiVars>>

\* app.js 728-740, then 704-709: the request of fetchFieldLastUsed settles
\* and the callback of openFieldModal writes the modal's Last Used
FieldLastUsedSettled ==
    /\ UNCHANGED serverVars
    /\ \E q \in {r \in onDemand : r.c = 0} :
       \E ok \in BOOLEAN :
          /\ IF ok THEN faults' = faults
                   ELSE faults < MaxFaults /\ faults' = faults + 1
          /\ LET res == OnDemandResult(ok, upstream.tasks[customFields[q.f].gid])
                 field == [customFields[q.f] EXCEPT
                              !.last_used = res.last_used,
                              !.last_used_task_gid = res.last_used_task_gid,
                              !.lastUsedFetched = res.lastUsedFetched]
             IN  /\ customFields' = [customFields EXCEPT ![q.f] = field]
                 /\ modalLastUsed' =
                       IF ~modalHidden
                       THEN FormatLastUsed(field.last_used, field.last_used_task_gid)
                       ELSE modalLastUsed
          /\ onDemand' = onDemand \ {q}
          /\ UNCHANGED <<modalHidden, modalField, modalLocCells, locInfo, opens>>
          /\ UNCHANGED <<upstream, run, clicks, issued, fetched, lastUsedLoaded, filtered>>
          /\ UNCHANGED <<runVars, loopVars, uiVars>>

\* app.js 745-757, then 715-720: a request of fetchLocationLastUsed settles
\* and the callback of openFieldModal writes the cell of its row index
LocationLastUsedSettled ==
    /\ UNCHANGED serverVars
    /\ \E q \in {r \in onDemand : r.c # 0} :
       \E ok \in BOOLEAN :
          /\ IF ok THEN faults' = faults
                   ELSE faults < MaxFaults /\ faults' = faults + 1
          /\ LET entry == ListOf(customFields[q.f], q.c)[q.k]
                 res   == OnDemandResult(ok, LocSearchData(customFields[q.f].gid, entry.gid))
                 old   == {r \in locInfo : r.f = q.f /\ r.c = q.c /\ r.k = q.k}
                 marked == IF res.lastUsedFetched = "true"
                           THEN {[f |-> q.f, c |-> q.c, k |-> q.k,
                                  last_used |-> res.last_used,
                                  last_used_task_gid |-> res.last_used_task_gid]}
                           ELSE {}
             IN  /\ locInfo' = (locInfo \ old) \cup marked
                 /\ modalLocCells' =
                       IF ~modalHidden /\ q.idx < Len(modalLocCells)
                       THEN [modalLocCells EXCEPT ![q.idx + 1] =
                                FormatLastUsed(res.last_used, res.last_used_task_gid)]
                       ELSE modalLocCells
          /\ onDemand' = onDemand \ {q}
          /\ UNCHANGED <<modalHidden, modalField, modalLastUsed, opens>>
          /\ UNCHANGED <<upstream, run, clicks, issued, fetched>>
          /\ UNCHANGED <<runVars, loopVars, stateVars, uiVars>>

\* app.js 760-763
CloseModal ==
    /\ ~modalHidden
    /\ modalHidden' = TRUE
    /\ UNCHANGED <<modalField, modalLastUsed, modalLocCells, onDemand, locInfo, opens>>
    /\ UNCHANGED <<ghostVars, runVars, loopVars, stateVars, uiVars, serverVars>>

\* A session in which the data is loaded once and the user then looks at the
\* details of the first and of the last field of the table
NextModal ==
    \/ Next
    \/ \E f \in {1, Len(customFields)} : OpenFieldModal(f)
    \/ FieldLastUsedSettled
    \/ LocationLastUsedSettled
    \/ CloseModal
InitModal == Loaded(ModalWorlds, 1)
SpecModal == InitModal /\ [][NextModal]_vars

\* ---------------------------------------------------------------------
\* The server: session, OAuth routes and proxied routes (server.js)
\* ---------------------------------------------------------------------
clientVars == <<ghostVars, runVars, loopVars, stateVars, uiVars, modalVars>>

\* server.js 47-58: the session middleware hands each request its own
\* req.session: the one the store holds under the id of the request's cookie,
\* or a new empty one (written here with id 0 until it is saved)
KnownSession == cookie \in DOMAIN sessions
ReqSid == IF KnownSession THEN cookie ELSE 0
ReqSession == IF KnownSession THEN sessions[cookie] ELSE EmptySession

\* The id under which the session of a request is saved
SavedSid(sid) == IF sid = 0 THEN sids + 1 ELSE sid

\* server.js 47-58: when the response ends the request's session is written
\* to the store under its id, and the id sent as cookie, if the handler
\* changed the session (resave: false, saveUninitialized: false)
EndResponse(sid, sess, loaded) ==
    IF sess = loaded
    THEN UNCHANGED <<sessions, cookie, sids>>
    ELSE /\ SavedSid(sid) <= MaxSessions
         /\ sessions' = StoreSet(sessions, SavedSid(sid), sess)
         /\ cookie' = SavedSid(sid)
         /\ sids' = IF sid = 0 THEN sids + 1 ELSE sids

Reply(id, route, code, text) ==
    [id |-> id, route |-> route, status |-> code, text |-> text]

\* The request that arrives now, suspended at its first fetch
Suspended(route, sess, at, sent) ==
    [id |-> arrivals + 1, route |-> route, sid |-> ReqSid, sess |-> sess,
     loaded |-> ReqSession, at |-> at, sent |-> sent]

\* The tokens of a token response, server.js 121-123 and 182-184
WithTokens(sess) ==
    [sess EXCEPT !.accessToken = minted + 1,
                 !.refreshToken = minted + 1,
                 !.tokenExpiresAt = clock + ExpiresIn]

\* server.js 137-151
AuthLogin ==
    /\ arrivals < MaxRequests
    /\ arrivals' = arrivals + 1
    /\ logins' = logins + 1
    /\ EndResponse(ReqSid, [ReqSession EXCEPT !.oauthState = logins + 1],
                   ReqSession)
    /\ storedStates' = storedStates \cup {<<SavedSid(ReqSid), logins + 1>>}
    /\ reply' = Reply(arrivals + 1, "login", 302, "oauth_authorize")
    /\ UNCHANGED <<inflight, clock, minted, accepted, loggedOut>>
    /\ UNCHANGED clientVars

\* server.js 153-170, up to the fetch of the token exchange: the request
\* carries ?state= (or none: Unset) and possibly ?error=
AuthCallback(state, error) ==
    /\ arrivals < MaxRequests
    /\ arrivals' = arrivals + 1
    /\ IF error
       THEN /\ reply' = Reply(arrivals + 1, "callback", 302, "/?error=access_denied")
            /\ UNCHANGED <<inflight, accepted>>
       ELSE IF state # ReqSession.oauthState
       THEN /\ reply' = Reply(arrivals + 1, "callback", 403, "State mismatch")
            /\ UNCHANGED <<inflight, accepted>>
       ELSE /\ Cardinality(inflight) < MaxInflight
            /\ inflight' = inflight \cup
                  {Suspended("callback", [ReqSession EXCEPT !.oauthState = Unset],
                           "exchange", state)}
            /\ accepted' = Append(accepted, <<ReqSid, state>>)
            /\ UNCHANGED reply
    /\ UNCHANGED <<sessions, cookie, sids, clock, minted, logins, storedStates,
                   loggedOut>>
    /\ UNCHANGED clientVars

\* server.js 172-190: the token exchange settles
ExchangeSettled ==
    /\ \E r \in {q \in inflight : q.at = "exchange"} :
       \E ok \in BOOLEAN :
          /\ inflight' = inflight \ {r}
          /\ EndResponse(r.sid, IF ok THEN WithTokens(r.sess) ELSE r.sess, r.loaded)
          /\ minted' = IF ok THEN minted + 1 ELSE minted
          /\ reply' = Reply(r.id, "callback", 302,
                            IF ok THEN "/" ELSE "/?error=token_exchange_failed")
    /\ UNCHANGED <<clock, logins, arrivals, storedStates, accepted, loggedOut>>
    /\ UNCHANGED clientVars

\* server.js 200-202
AuthLogout ==
    /\ arrivals < MaxRequests
    /\ arrivals' = arrivals + 1
    /\ sessions' = StoreDestroy(sessions, ReqSid)
    /\ loggedOut' = IF ReqSid = 0 THEN loggedOut ELSE loggedOut \cup {ReqSid}
    /\ reply' = Reply(arrivals + 1, "logout", 302, "/")
    /\ UNCHANGED <<cookie, sids, inflight, clock, minted, logins, storedStates,
                   accepted>>
    /\ UNCHANGED clientVars

\* server.js 126-131
RequireAuth(sess) == sess.accessToken # Unset

\* server.js 97-99: the token has to be refreshed
NeedsRefresh(sess) ==
    /\ sess.tokenExpiresAt # Unset
    /\ ~(clock < sess.tokenExpiresAt - Margin)

\* server.js 208-219 (and each other /api route, 221-399), up to its first
\* fetch: the refresh of ensureFreshToken or the call of asanaFetch
ApiRequest ==
    /\ arrivals < MaxRequests
    /\ arrivals' = arrivals + 1
    /\ IF ~RequireAuth(ReqSession)
       THEN /\ reply' = Reply(arrivals + 1, "api", 401, "Not authenticated")
            /\ UNCHANGED inflight
       ELSE /\ Cardinality(inflight) < MaxInflight
            /\ inflight' = inflight \cup
                  {Suspended("api", ReqSession,
                           IF NeedsRefresh(ReqSession) THEN "refresh" ELSE "call",
                           ReqSession.refreshToken)}
            /\ UNCHANGED reply
    /\ UNCHANGED <<sessions, cookie, sids, clock, minted, logins, storedStates,
                   accepted, loggedOut>>
    /\ UNCHANGED clientVars

\* server.js 108-124: the refresh request settles
RefreshSettled ==
    /\ \E r \in {q \in inflight : q.at = "refresh"} :
       \E ok \in BOOLEAN :
          IF ok
          THEN /\ inflight' = (inflight \ {r}) \cup
                     {[r EXCEPT !.at = "call", !.sess = WithTokens(r.sess)]}
               /\ minted' = minted + 1
               /\ UNCHANGED <<sessions, cookie, sids, reply>>
          ELSE /\ inflight' = inflight \ {r}
               /\ EndResponse(r.sid, r.sess, r.loaded)
               /\ reply' = Reply(r.id, "api", 401, "Token refresh failed")
               /\ UNCHANGED minted
    /\ UNCHANGED <<clock, logins, arrivals, storedStates, accepted, loggedOut>>
    /\ UNCHANGED clientVars

\* server.js 74-94 and 211-218: the proxied call settles
ApiSettled ==
    /\ \E r \in {q \in inflight : q.at = "call"} :
       \E ok \in BOOLEAN :
          /\ inflight' = inflight \ {r}
          /\ EndResponse(r.sid, r.sess, r.loaded)
          /\ reply' = Reply(r.id, "api", IF ok THEN 200 ELSE 500,
                            IF ok THEN "data" ELSE "error")
    /\ UNCHANGED <<clock, minted, logins, arrivals, storedStates, accepted,
                   loggedOut>>
    /\ UNCHANGED clientVars

\* A minute passes
Tick ==
    /\ clock < MaxClock
    /\ clock' = clock + 1
    /\ UNCHANGED <<sessions, cookie, sids, inflight, minted, logins, arrivals,
                   reply, storedStates, accepted, loggedOut>>
    /\ UNCHANGED clientVars

\* The state parameters a callback request carries: none, a value no login
\* has drawn, or one of those drawn
StateParams == {Unset, Forged} \cup (1..logins)

\* One browser talking to the server, the clock running
NextServer ==
    \/ AuthLogin
    \/ \E state \in StateParams : \E error \in BOOLEAN : AuthCallback(state, error)
    \/ ExchangeSettled
    \/ AuthLogout
    \/ ApiRequest
    \/ RefreshSettled
    \/ ApiSettled
    \/ Tick
InitServer == Loaded({<<MaxLib, WideCounts(MaxProjects), FALSE, {}>>}, 0)
SpecServer == InitServer /\ [][NextServer]_vars

\* ---------------------------------------------------------------------
\* Properties
\* ---------------------------------------------------------------------
\* The run has reached its successful end: the result set is published.
Published == run > 0 /\ pc = "idle" /\ ~tableContainerHidden


\* Entries for resource r in an association list
CountIn(list, r) == Cardinality({k \in 1..Len(list) : list[k].gid = r})

\* Entries of the settings response of resource r of category c that name
\* field g, with the given value of the payload's is_global_to_workspace
Attached(c, r, g) ==
    {k \in 1..Len(SettingsResponse(upstream, c, r)) :
        SettingsResponse(upstream, c, r)[k].custom_field.gid = g}
AttachedLocal(c, r, g) ==
    {k \in Attached(c, r, g) :
        ~SettingsResponse(upstream, c, r)[k].custom_field.is_global_to_workspace}

\* Items of category c's listing that name resource r and whose settings
\* were fetched
FetchedItems(c, r) ==
    {j \in 1..Len(upstream.listing[c]) :
        <<c, j>> \in fetched /\ upstream.listing[c][j].gid = r}

\* Field g was observed on resource r of category c (in any payload / in a
\* payload that reports it as not global)
Observed(c, r, g) == FetchedItems(c, r) # {} /\ Attached(c, r, g) # {}
ObservedLocal(c, r, g) == FetchedItems(c, r) # {} /\ AttachedLocal(c, r, g) # {}

\* Resources that category c's listing names, and fields that the settings
\* of resource r of category c name
Listed(c) == {upstream.listing[c][j].gid : j \in 1..Len(upstream.listing[c])}
NamedBy(c, r) ==
    {SettingsResponse(upstream, c, r)[k].custom_field.gid :
        k \in 1..Len(SettingsResponse(upstream, c, r))}
NamedIn(c) == UNION {NamedBy(c, r) : r \in Listed(c)}

\* The association map m holds exactly what the fetched settings of
\* category c attach: per field and listed resource one entry for every
\* fetched item and attachment, and no entry for any other resource
MapMatchesFetched(m, c) ==
    /\ \A g \in (DOMAIN m) \cup NamedIn(c) :
          \A r \in Listed(c) :
              CountIn(MapGet(m, g), r) =
                  Cardinality(FetchedItems(c, r)) * Cardinality(Attached(c, r, g))
    /\ \A g \in DOMAIN m :
          \A k \in 1..Len(m[g]) : m[g][k].gid \in Listed(c)

\* C1: in the result set of a successful run no two entries have the same
\* field identity.
C1_UniqueIdentity ==
    Published =>
        \A a, b \in 1..Len(customFields) :
            customFields[a].gid = customFields[b].gid => a = b

\* C1 witness: a published field that a project and a goal both reference
\* and that is also in the library.
C1_Witness ==
    /\ Published
    /\ \E k \in 1..Len(customFields) :
          /\ customFields[k].gid \in GidsOf(upstream.lib)
          /\ customFields[k].projects # <<>>
          /\ customFields[k].goals # <<>>
          /\ \E r \in Listed(1) : ObservedLocal(1, r, customFields[k].gid)

\* C2: after a successful run the result set holds exactly the library
\* fields and the fields observed in a settings payload that reports them
\* as not global, and such a field's association list names every resource
\* it was observed on.
C2_DiscoveryComplete ==
    Published =>
        /\ GidsOf(customFields) =
              GidsOf(upstream.lib) \cup
              UNION {UNION {{g \in NamedBy(c, r) : ObservedLocal(c, r, g)} :
                            r \in Listed(c)} : c \in Categories}
        /\ \A c \in Categories :
              \A r \in Listed(c) :
                  \A g \in NamedBy(c, r) :
                      ObservedLocal(c, r, g) =>
                          \E k \in 1..Len(customFields) :
                              /\ customFields[k].gid = g
                              /\ CountIn(ListOf(customFields[k], c), r) > 0

\* C2 witness: library {1, 2} and a project exposing a field that is not
\* in the library; the result is the three fields.
C2_Witness ==
    /\ Published
    /\ GidsOf(upstream.lib) = {1, 2}
    /\ Len(customFields) = 3
    /\ \E k \in 1..Len(customFields) :
          /\ customFields[k].gid \notin GidsOf(upstream.lib)
          /\ ~customFields[k].is_global_to_workspace
          /\ customFields[k].projects # <<>>

\* C3: once the library has been fetched, no failure of a category's
\* listing request makes the run show the error banner.
C3_CategoryFailureNonFatal ==
    "listing" \in issued => errorBannerHidden

\* C4: a step in which a library page fails ends the run with the error
\* shown, nothing but library requests issued and no result published;
\* after its end the run issues no request and publishes nothing.
C4_FailStep ==
    (pc = "library" /\ faults' > faults) =>
        /\ pc' = "idle"
        /\ ~errorBannerHidden' /\ errorMessage' # ""
        /\ issued' = {"library"}
        /\ customFields' = customFields
        /\ statsBarHidden' /\ toolbarHidden' /\ tableContainerHidden'
        /\ ~lastUsedLoaded'
        /\ ~loadBtnDisabled'
C4_AfterEnd ==
    (pc = "idle" /\ run > 0) =>
        /\ pc' = "idle"
        /\ issued' = issued
        /\ customFields' = customFields
C4_LibraryFailureAborts == [][C4_FailStep /\ C4_AfterEnd]_vars

\* C4 witness: the run ended with the failure of the second library page.
C4_Witness ==
    /\ run > 0 /\ pc = "idle"
    /\ ~errorBannerHidden
    /\ errorMessage = "Failed to load custom fields"
    /\ progress = 10
    /\ issued = {"library"}
    /\ customFields = <<>>

Settled == {"ok", "notok", "threw"}
InBatchLoop == pc \in {"settings", "sleep", "search", "luSleep"}
Width == IF pc \in {"settings", "sleep"} THEN CONCURRENCY ELSE LU_CONCURRENCY
CeilDiv(n, w) == (n + w - 1) \div w

\* C5: in both batch loops at most W requests are pending, every item of
\* an earlier batch has settled and no item of a later batch is issued.
C5_BatchBarrier ==
    InBatchLoop =>
        /\ Cardinality(Pending(status)) <= Width
        /\ \A j \in DOMAIN status :
              /\ j <= i => status[j] \in Settled
              /\ j > i + Width => status[j] = "unissued"
              /\ (j > i /\ j <= i + Width) => status[j] # "unissued"

\* C5 witness: requests of the second settings batch are pending after a
\* first batch of CONCURRENCY requests, one of which failed.
C5_Witness ==
    /\ pc = "settings"
    /\ i = CONCURRENCY
    /\ Pending(status) # {}
    /\ \E j \in 1..CONCURRENCY : status[j] = "threw"

\* C6: in the settings loop the map holds exactly the attachments of the
\* items whose request succeeded (a failed item adds no entry and no
\* discovered field); in the search loop a field holds the search result
\* exactly when its request succeeded; and a loop is left only when every
\* item has settled, after ceil(N/W) batches.
C6_StatePart ==
    /\ pc \in {"settings", "sleep"} =>
          /\ MapMatchesFetched(map, cat)
          /\ \A j \in DOMAIN status : status[j] = "ok" <=> <<cat, j>> \in fetched
          /\ \A k \in 1..Len(extraFields) :
                \E r \in Listed(cat) : ObservedLocal(cat, r, extraFields[k].gid)
    /\ pc \in {"search", "luSleep"} =>
          \A j \in DOMAIN status :
             /\ status[j] = "ok" =>
                   fields[j] = LastUsedResult(fields[j], TRUE, upstream.tasks[fields[j].gid])
             /\ status[j] \in {"notok", "threw"} =>
                   fields[j].last_used = Null /\ fields[j].last_used_task_gid = Undefined
             /\ status[j] \in {"unissued", "pending"} =>
                   fields[j].last_used = Undefined
C6_ExitPart ==
    (InBatchLoop /\ ~InBatchLoop') \/ (InBatchLoop /\ InBatchLoop' /\ status' = <<>>)
    \/ (pc = "settings" /\ pc' = "search")
        => /\ \A j \in DOMAIN status : status[j] \in Settled
           /\ batches = CeilDiv(Len(status), Width)
C6_BatchIsolation == [](C6_StatePart) /\ [][C6_ExitPart]_vars

\* C6 witness: every settings request has settled, one of the first batch
\* failed, and the item of the second batch is recorded in the map.
C6_Witness ==
    /\ pc = "settings"
    /\ \A j \in DOMAIN status : status[j] \in Settled
    /\ batches = 2
    /\ \E j \in 1..CONCURRENCY : status[j] \in {"notok", "threw"}
    /\ \E j \in (CONCURRENCY + 1)..Len(status) :
          /\ status[j] = "ok"
          /\ \E g \in DOMAIN map : CountIn(map[g], resources[j].gid) > 0

\* C7: no category collects an identity that is in the library or was
\* discovered by an earlier category: the identities it collects are not
\* among the merged fields, the merged fields hold each identity once, and
\* knownGids is the identity set of the merged fields.
C7_SequentialDedup ==
    /\ \A a, b \in 1..Len(fields) : fields[a].gid = fields[b].gid => a = b
    /\ \A a, b \in 1..Len(extraFields) :
          extraFields[a].gid = extraFields[b].gid => a = b
    /\ pc \in {"listing", "settings", "sleep"} =>
          /\ knownGids = GidsOf(fields)
          /\ \A k \in 1..Len(extraFields) : extraFields[k].gid \notin GidsOf(fields)

\* C7 witness: the goal's settings, which name a field discovered in the
\* projects phase as not global, have been processed.
C7_Witness ==
    /\ pc = "settings" /\ cat = 3
    /\ <<3, 1>> \in fetched
    /\ \E g \in GidsOf(fields) \ GidsOf(upstream.lib) :
          /\ AttachedLocal(3, 1, g) # {}
          /\ \E r \in Listed(1) : ObservedLocal(1, r, g)

\* C8: after a successful run every field carries, per category, the list
\* accumulated for its identity in that category's map (the empty list
\* when the map has none), and each map holds one entry per fetched
\* attachment.
C8_AssociationAccumulation ==
    Published =>
        /\ \A c \in Categories : MapMatchesFetched(catMaps[c], c)
        /\ \A k \in 1..Len(customFields), c \in Categories :
              ListOf(customFields[k], c) = MapGet(catMaps[c], customFields[k].gid)

\* C8 witness: a field attached to two projects and one goal.
C8_Witness ==
    /\ Published
    /\ \E k \in 1..Len(customFields) :
          /\ Len(customFields[k].projects) = 2
          /\ customFields[k].projects[1].gid # customFields[k].projects[2].gid
          /\ Len(customFields[k].goals) = 1
          /\ Len(customFields[k].portfolios) = 0

\* C9: no association list of any category holds two entries for the same
\* resource.
C9_NoDuplicateResource ==
    \A c \in Categories :
        \A g \in DOMAIN catMaps[c] :
            \A a, b \in 1..Len(catMaps[c][g]) :
                catMaps[c][g][a].gid = catMaps[c][g][b].gid => a = b

\* C10: with the option read as disabled the run has issued no task-search
\* request and every field of its result is "not checked" (no last_used,
\* no fetched marker, state.lastUsedLoaded false), which the export shows
\* as "Not loaded"; a field checked with none found is shown as
\* "Never used".
C10_EnrichmentOptOut ==
    /\ lastUsedOpt = "off" =>
          /\ "search" \notin issued
          /\ ~lastUsedLoaded
          /\ \A k \in 1..Len(customFields) :
                /\ customFields[k].last_used = Undefined
                /\ customFields[k].last_used_task_gid = Undefined
                /\ customFields[k].lastUsedFetched = Undefined
                /\ LastUsedCell(customFields[k], lastUsedLoaded) = "Not loaded"
    /\ (Published /\ lastUsedOpt = "on") =>
          \A k \in 1..Len(customFields) :
              customFields[k].last_used = Null =>
                  LastUsedCell(customFields[k], lastUsedLoaded) = "Never used"

\* C10 witness: a result of several fields published with the option
\* disabled.
C10_Witness ==
    /\ Published
    /\ lastUsedOpt = "off"
    /\ Len(customFields) >= 2

\* C11: every percentage passed to setProgress lies in 0..100 and is not
\* lower than any percentage passed earlier in the same run.
C11_ProgressMonotonic ==
    /\ progress \in 0..100
    /\ progress = progressTop

\* What the reconciliation (steps 1 to 3) determines of a field
Reconciled(f) ==
    [gid |-> f.gid, is_global_to_workspace |-> f.is_global_to_workspace,
     projects |-> f.projects, portfolios |-> f.portfolios, goals |-> f.goals]
ReconciledSet(flds) == [k \in 1..Len(flds) |-> Reconciled(flds[k])]

\* Two lists hold the same entries the same number of times
SameEntries(a, b) ==
    /\ Len(a) = Len(b)
    /\ \A k \in 1..Len(a) :
          Cardinality({l \in 1..Len(a) : a[l] = a[k]}) =
          Cardinality({l \in 1..Len(b) : b[l] = a[k]})

\* Two merged sets hold the same fields with the same flag and the same
\* association entries, in whatever order
SameFields(a, b) ==
    /\ Len(a) = Len(b)
    /\ \A k \in 1..Len(a) :
          \E l \in 1..Len(b) :
              /\ b[l].gid = a[k].gid
              /\ b[l].is_global_to_workspace = a[k].is_global_to_workspace
              /\ \A c \in Categories : SameEntries(ListOf(a[k], c), ListOf(b[l], c))

\* A library field that the fetched settings of some resource attach has
\* one entry in the published result
OneEntryPerLibraryField ==
    Published =>
        \A g \in GidsOf(upstream.lib) :
            (\E c \in Categories : \E r \in Listed(c) : Observed(c, r, g)) =>
                Cardinality({k \in 1..Len(customFields) : customFields[k].gid = g}) = 1

\* The step that publishes the result of a repeated run, every response of
\* the session having been the upstream data (none failed)
RepeatedRunPublishes ==
    /\ run >= 2 /\ pc # "idle" /\ pc' = "idle"
    /\ faults' = 0
    /\ ~tableContainerHidden'

\* C12 (as stated): a library field that is also attached has one entry in
\* the merged set, and a repeated run on the same upstream responses
\* publishes a merged set identical to the one of the run before.
C12_RerunIdentical ==
    [](OneEntryPerLibraryField) /\
    [][RepeatedRunPublishes =>
          ReconciledSet(customFields') = ReconciledSet(customFields)]_vars

\* C12 (amended): a library field that is also attached has one entry in
\* the merged set, and a repeated run on the same upstream responses
\* publishes the same fields with the same flags and the same association
\* entries as the run before; only the order of the entries may differ.
C12_IdempotentIdentity ==
    [](OneEntryPerLibraryField) /\
    [][RepeatedRunPublishes =>
          /\ SameFields(customFields', customFields)
          /\ SameFields(customFields, customFields')]_vars

\* C12 witness: the second run of a session without failed responses has
\* published a library field that projects and a goal carry.
C12_Witness ==
    /\ run = 2 /\ Published /\ faults = 0
    /\ \E k \in 1..Len(customFields) :
          /\ customFields[k].gid \in GidsOf(upstream.lib)
          /\ Len(customFields[k].projects) = 2
          /\ Len(customFields[k].goals) = 1

\* The first n items of a collection
Prefix(coll, n) == SubSeq(coll, 1, n)

\* C13: while a collection is being paged the items gathered are the items
\* upstream holds up to the cursor of the latest page, in order; once the
\* page without cursor has arrived they are the whole collection, each item
\* once and in order (the library as the first fields, the listing as the
\* resources of the batch loop).
C13_PaginationComplete ==
    /\ pc = "library" => all = Prefix(upstream.lib, offset)
    /\ pc = "listing" => resources = Prefix(upstream.listing[cat], offset)
    /\ pc \in {"settings", "sleep"} => resources = upstream.listing[cat]
    /\ pc \in {"listing", "settings", "sleep"} =>
          /\ Len(fields) >= Len(upstream.lib)
          /\ Prefix(fields, Len(upstream.lib)) = upstream.lib

\* C13 witness: the settings loop runs over a listing that took more than
\* one page, after a library that took more than one page.
C13_Witness ==
    /\ pc = "settings"
    /\ Len(resources) > PageLimit
    /\ Len(upstream.lib) > PageLimit
    /\ resources = upstream.listing[cat]

\* A step in which a listing page is answered with a non-OK response (the
\* run goes on without showing an error)
ListingNotOkStep ==
    pc = "listing" /\ faults' > faults /\ errorBannerHidden'

\* C14: a non-OK listing page gives the category an empty association map
\* and no discovered field, whatever pages had arrived before; no settings
\* request of the category is issued; the run goes on with the next
\* category, or with steps 3 and 4 after the goals; the maps of the
\* categories already finished are kept.
C14_AfterNotOk ==
    ListingNotOkStep =>
        /\ catMaps'[cat] = EmptyMap
        /\ \A c \in Categories : c < cat => catMaps'[c] = catMaps[c]
        /\ fetched' = fetched
        /\ pc' \notin {"settings", "sleep"}
        /\ cat < 3 =>
              /\ pc' = "listing" /\ cat' = cat + 1
              /\ fields' = fields /\ knownGids' = knownGids
              /\ resources' = <<>> /\ Pending(status') = {}
        /\ cat = 3 =>
              /\ pc' \in {"search", "idle"}
              /\ pc' = "search" =>
                    /\ GidsOf(fields') = GidsOf(fields)
                    /\ \A k \in 1..Len(fields') : fields'[k].goals = <<>>
              /\ pc' = "idle" =>
                    /\ ~tableContainerHidden'
                    /\ GidsOf(customFields') = GidsOf(fields)
                    /\ \A k \in 1..Len(customFields') : customFields'[k].goals = <<>>
C14_ListingNotOkEmptyMaps == [][C14_AfterNotOk]_vars

\* C14 witness: the projects listing, longer than a page and with fields
\* attached, was answered with a non-OK page; the run is at the portfolios
\* with an empty project map and no settings request issued.
C14_Witness ==
    /\ pc = "listing" /\ cat = 2
    /\ faults > 0
    /\ "settings" \notin issued
    /\ Len(upstream.listing[1]) > PageLimit
    /\ NamedIn(1) # {}
    /\ catMaps[1] = EmptyMap

\* A step in which the search request of a field fails (non-OK or thrown)
SearchFailedStep == pc = "search" /\ faults' > faults

\* The step in which the run leaves the search loop
SearchLoopLeft == pc \in {"search", "luSleep"} /\ pc' \notin {"search", "luSleep"}

\* C15: a failed search request sets its field's last_used to null and
\* changes nothing else: the loop goes on, no error is shown, the other
\* fields and their requests are untouched. The loop is left only by
\* publishing the result with state.lastUsedLoaded set, every field having
\* been queried and the fields of failed requests still null.
C15_FailedStep ==
    SearchFailedStep =>
        /\ pc' = "search" /\ errorBannerHidden'
        /\ Len(fields') = Len(fields)
        /\ \E j \in Pending(status) :
              /\ status'[j] \in {"notok", "threw"}
              /\ fields'[j].last_used = Null
              /\ fields'[j].gid = fields[j].gid
              /\ \A k \in DOMAIN status \ {j} :
                    status'[k] = status[k] /\ fields'[k] = fields[k]
C15_Leaving ==
    SearchLoopLeft =>
        /\ pc' = "idle" /\ errorBannerHidden'
        /\ ~tableContainerHidden' /\ lastUsedLoaded'
        /\ customFields' = fields
        /\ \A j \in DOMAIN status :
              /\ status[j] \in Settled
              /\ status[j] \in {"notok", "threw"} => fields[j].last_used = Null
C15_LastUsedFailureIsolated == [][C15_FailedStep /\ C15_Leaving]_vars

\* C15 witness: a result published with enrichment loaded in which the
\* request of a field of the first batch failed (upstream has a task for
\* it, the field shows null) and a field of the second batch carries the
\* date of its task.
C15_Witness ==
    /\ Published /\ lastUsedLoaded /\ faults > 0
    /\ Len(customFields) > LU_CONCURRENCY
    /\ \E k \in 1..LU_CONCURRENCY :
          /\ customFields[k].last_used = Null
          /\ upstream.tasks[customFields[k].gid] # <<>>
    /\ \E k \in (LU_CONCURRENCY + 1)..Len(customFields) :
          customFields[k].last_used = FoundTask.modified_at

\* Field f holds what the task search for it returns upstream: date and
\* task of the top result, or null for both when there is none
HoldsTopResult(f) ==
    LET data == upstream.tasks[f.gid]
    IN  IF Len(data) > 0
        THEN f.last_used = data[1].modified_at /\ f.last_used_task_gid = data[1].gid
        ELSE f.last_used = Null /\ f.last_used_task_gid = Null

\* The status of a request moves from unissued to pending to settled
StatusAdvances(a, b) ==
    \/ a = b
    \/ a = "unissued" /\ b = "pending"
    \/ a = "pending" /\ b \in Settled

\* C16: the search loop has one request per field of the merged set, which
\* is issued once and settles once; a field whose request succeeded holds
\* the date and the task of the top result, or null when the result is
\* empty; the loop is left with every request settled, and a result
\* published with enrichment after a session without failed responses
\* holds the top result for every field.
C16_StatePart ==
    /\ pc \in {"search", "luSleep"} =>
          /\ DOMAIN status = 1..Len(fields)
          /\ \A j \in DOMAIN status : status[j] = "ok" => HoldsTopResult(fields[j])
    /\ (Published /\ lastUsedOpt = "on" /\ faults = 0) =>
          \A k \in 1..Len(customFields) : HoldsTopResult(customFields[k])
C16_StepPart ==
    /\ (pc \in {"search", "luSleep"} /\ pc' \in {"search", "luSleep"}) =>
          /\ DOMAIN status' = DOMAIN status
          /\ \A j \in DOMAIN status : StatusAdvances(status[j], status'[j])
    /\ (pc = "search" /\ pc' = "idle") =>
          \A j \in 1..Len(fields) : status[j] \in Settled
C16_OneSearchPerField == [](C16_StatePart) /\ [][C16_StepPart]_vars

\* C16 witness: a result published with enrichment and without failed
\* responses: a library field with the date and task of its top result and
\* a discovered field for which no task was found.
C16_Witness ==
    /\ Published /\ lastUsedOpt = "on" /\ faults = 0
    /\ \E k \in 1..Len(customFields) :
          /\ customFields[k].gid \in GidsOf(upstream.lib)
          /\ customFields[k].last_used = FoundTask.modified_at
          /\ customFields[k].last_used_task_gid = FoundTask.gid
    /\ \E k \in 1..Len(customFields) :
          /\ customFields[k].gid \notin GidsOf(upstream.lib)
          /\ customFields[k].last_used = Null
          /\ customFields[k].last_used_task_gid = Null

\* C17: in both batch loops a pause is started only when a batch has fully
\* settled and items remain after it; a pause is followed by the next
\* batch and a batch other than the first is started only out of a pause,
\* so that pauses and batches alternate; the loop is left from a batch, not
\* from a pause, after ceil(N/W) - 1 pauses (none when N <= W).
C17_StatePart ==
    InBatchLoop =>
        /\ pauses = IF pc \in {"sleep", "luSleep"} THEN batches ELSE batches - 1
        /\ pauses <= CeilDiv(Len(status), Width) - 1
C17_StepPart ==
    /\ (InBatchLoop /\ pauses' = pauses + 1) =>
          /\ pc \in {"settings", "search"} /\ pc' \in {"sleep", "luSleep"}
          /\ \A j \in BatchOf(i, Width, Len(status)) : status[j] \in Settled
          /\ i + Width < Len(status)
          /\ batches' = batches
    /\ (InBatchLoop /\ batches' = batches + 1) =>
          /\ pc \in {"sleep", "luSleep"} /\ pc' \in {"settings", "search"}
          /\ pauses' = pauses
    /\ pc \in {"sleep", "luSleep"} => batches' = batches + 1
    /\ ((InBatchLoop /\ ~InBatchLoop') \/ (pc = "settings" /\ pc' \in {"listing", "search"})) =>
          /\ pc \in {"settings", "search", "listing"}
          /\ pc \in {"settings", "search"} =>
                /\ pauses = CeilDiv(Len(status), Width) - 1
                /\ Len(status) <= Width => pauses = 0
C17_PausesBetweenBatches == [](C17_StatePart) /\ [][C17_StepPart]_vars

\* C17 witness: the settings loop over more resources than one batch holds
\* runs its second and last batch after one pause.
C17_Witness ==
    /\ pc = "settings"
    /\ Len(status) > CONCURRENCY
    /\ batches = 2 /\ pauses = 1
    /\ ~MoreBatches(i, CONCURRENCY, Len(status))

\* C18: the category changes only from the library phase to the projects
\* and from a category to the next one in the order projects, portfolios,
\* goals; at that step no request of the category left is pending or
\* unissued, its discoveries have been appended to the fields, and
\* knownGids is the identity set of the fields; requests are pending only
\* for the one category being scanned; knownGids never loses an identity.
C18_StatePart ==
    /\ pc \in {"listing", "settings", "sleep"} => cat \in Categories
    /\ pc \in {"listing", "sleep"} => Pending(status) = {}
    /\ pc \in {"settings", "sleep"} => Len(status) = Len(upstream.listing[cat])
C18_StepPart ==
    /\ knownGids \subseteq knownGids'
    /\ cat' # cat =>
          /\ pc' = "listing"
          /\ knownGids' = GidsOf(fields')
          /\ IF pc = "library"
             THEN cat' = 1
             ELSE /\ cat' = cat + 1
                  /\ pc \in {"listing", "settings"}
                  /\ \A j \in DOMAIN status : status[j] \in Settled
                  /\ fields' = fields \o extraFields
                  /\ knownGids' = knownGids \cup GidsOf(extraFields)
    /\ (pc \in {"listing", "settings", "sleep"} /\ pc' \in {"search", "idle"}
        /\ errorBannerHidden') => cat = 3
C18_SequentialCategories == [](C18_StatePart) /\ [][C18_StepPart]_vars

\* C18 witness: the goals are being listed after the settings of a project
\* and of a portfolio were fetched, and the fields hold more identities
\* than the library.
C18_Witness ==
    /\ pc = "listing" /\ cat = 3
    /\ <<1, 1>> \in fetched /\ <<2, 1>> \in fetched
    /\ Cardinality(knownGids) > Len(upstream.lib)
    /\ knownGids = GidsOf(fields)

\* The flag the library reports for field g
LibraryFlag(g) ==
    LET k == CHOOSE l \in 1..Len(upstream.lib) : upstream.lib[l].gid = g
    IN  upstream.lib[k].is_global_to_workspace

\* Field f carries the flag it was first recorded with: the library's flag
\* for a library field, and for a discovered field the flag of a payload
\* that can be recorded, which reports the field as not global
KeepsRecordedFlag(f) ==
    IF f.gid \in GidsOf(upstream.lib)
    THEN f.is_global_to_workspace = LibraryFlag(f.gid)
    ELSE /\ ~f.is_global_to_workspace
         /\ \E c \in Categories : \E r \in Listed(c) : ObservedLocal(c, r, f.gid)

\* C19: every merged field carries the flag it was recorded with, during
\* the run and in the published result, whatever the settings payloads
\* report for its identity; no step changes the identity or the flag of a
\* field already merged.
C19_StatePart ==
    /\ pc \in {"listing", "settings", "sleep", "search", "luSleep"} =>
          \A k \in 1..Len(fields) : KeepsRecordedFlag(fields[k])
    /\ Published => \A k \in 1..Len(customFields) : KeepsRecordedFlag(customFields[k])
C19_StepPart ==
    /\ (pc \notin {"idle", "library"} /\ pc' # "idle") =>
          /\ Len(fields') >= Len(fields)
          /\ \A k \in 1..Len(fields) :
                /\ fields'[k].gid = fields[k].gid
                /\ fields'[k].is_global_to_workspace = fields[k].is_global_to_workspace
    /\ (pc \notin {"idle", "library"} /\ pc' = "idle" /\ ~tableContainerHidden') =>
          /\ Len(customFields') >= Len(fields)
          /\ \A k \in 1..Len(fields) :
                /\ customFields'[k].gid = fields[k].gid
                /\ customFields'[k].is_global_to_workspace = fields[k].is_global_to_workspace
C19_FlagNeverRewritten == [](C19_StatePart) /\ [][C19_StepPart]_vars

\* C19 witness: a published library field that a fetched settings payload
\* of a project reports as not global, still global in the result.
C19_Witness ==
    /\ Published
    /\ \E k \in 1..Len(customFields) :
          /\ customFields[k].gid \in GidsOf(upstream.lib)
          /\ customFields[k].is_global_to_workspace
          /\ \E r \in Listed(1) : ObservedLocal(1, r, customFields[k].gid)
          /\ customFields[k].projects # <<>>

\* C20: while a run is in flight its loading section is shown: the delayed
\* hiding that a finished run scheduled does not take effect once a later
\* run has started.
C20_NoLateUiEffect ==
    pc # "idle" => ~loadingSectionHidden

\* Items of the running settings loop whose response was OK and names field
\* g as not global
CarriersSettled(g) ==
    {j \in DOMAIN status :
        status[j] = "ok" /\ AttachedLocal(cat, resources[j].gid, g) # {}}

\* C21: in the settings loop a field that is not known and that the OK
\* responses settled so far report as not global is in extraFields exactly
\* once, however many of them carry it and in whatever order they settled;
\* the step in which a response settles is the step that records its
\* fields, and it only appends to extraFields.
C21_StatePart ==
    pc \in {"settings", "sleep"} =>
        \A g \in NamedIn(cat) :
            (g \notin knownGids /\ CarriersSettled(g) # {}) =>
                Cardinality({k \in 1..Len(extraFields) : extraFields[k].gid = g}) = 1
C21_StepPart ==
    (pc = "settings" /\ pc' = "settings") =>
        /\ Len(extraFields') >= Len(extraFields)
        /\ Prefix(extraFields', Len(extraFields)) = extraFields
        /\ \A j \in DOMAIN status :
              (status[j] = "pending" /\ status'[j] = "ok") =>
                  \A g \in NamedBy(cat, resources[j].gid) :
                      (g \notin knownGids /\ AttachedLocal(cat, resources[j].gid, g) # {}) =>
                          g \in GidsOf(extraFields')
C21_AtomicCapture == [](C21_StatePart) /\ [][C21_StepPart]_vars

\* C21 witness: two requests of one batch carry the same unknown field; the
\* second one settled first, then the first; the field is recorded once.
C21_Witness ==
    /\ pc = "settings"
    /\ Len(status) >= 2 /\ status[1] = "ok" /\ status[2] = "ok"
    /\ \E g \in NamedBy(cat, resources[1].gid) :
          /\ g \notin knownGids
          /\ AttachedLocal(cat, resources[1].gid, g) # {}
          /\ AttachedLocal(cat, resources[2].gid, g) # {}
          /\ resources[1].gid # resources[2].gid
          /\ Cardinality({k \in 1..Len(extraFields) : extraFields[k].gid = g}) = 1
          /\ Len(MapGet(map, g)) = 2
          /\ map[g][1].gid = resources[2].gid

\* Fields that upstream's settings collection of resource r of category c
\* attaches, on any of its pages
AttachedUpstream(c, r) ==
    {upstream.settings[c][r][k].custom_field.gid :
        k \in 1..Len(upstream.settings[c][r])}

\* C22: after a run in which no request failed, every field that upstream
\* attaches to a listed resource, on whichever page of the resource's settings
\* collection, has an association entry for that resource in the published
\* list of its category.
C22_AllSettingsPagesObserved ==
    (Published /\ faults = 0) =>
        \A c \in Categories : \A r \in Listed(c) :
            \A g \in AttachedUpstream(c, r) :
                \A k \in 1..Len(customFields) :
                    customFields[k].gid = g =>
                        CountIn(ListOf(customFields[k], c), r) >= 1

\* C22 divergence reached: a published run without failure in which a
\* library field of the second settings page of a project has no entry for
\* that project.
C22_Witness ==
    /\ Published /\ faults = 0
    /\ \E r \in Listed(1) :
          /\ Len(upstream.settings[1][r]) > PageLimit
          /\ \E g \in AttachedUpstream(1, r) :
                \E k \in 1..Len(customFields) :
                    /\ customFields[k].gid = g
                    /\ customFields[k].projects = <<>>

\* Field f carries the association lists that the three category maps hold
\* for it
ListsAttached(f, maps) ==
    /\ {"projects", "portfolios", "goals"} \subseteq DOMAIN f
    /\ \A c \in Categories : ListOf(f, c) = MapGet(maps[c], f.gid)

\* C23: no task search is issued while the library or a category is being
\* processed; the step that issues the first one is the step in which the
\* goals category returns with every one of its settings requests settled,
\* and after it, as in the whole search phase, every field carries its three
\* association lists.
C23_StatePart ==
    /\ pc \in {"library", "listing", "settings", "sleep"} => "search" \notin issued
    /\ pc = "search" =>
          /\ "search" \in issued
          /\ \A k \in 1..Len(fields) : ListsAttached(fields[k], catMaps)
C23_StepPart ==
    ("search" \notin issued /\ "search" \in issued') =>
        /\ cat = 3
        /\ pc \in {"listing", "settings"}
        /\ \A j \in DOMAIN status : status[j] \in Settled
        /\ Len(fields') = Len(fields) + Len(extraFields)
        /\ \A k \in 1..Len(fields') : ListsAttached(fields'[k], catMaps')
C23_SearchAfterAttach == [](C23_StatePart) /\ [][C23_StepPart]_vars

\* C23 witness: a task search is pending for a field that carries a goal
\* and a project.
C23_Witness ==
    /\ pc = "search"
    /\ \E j \in DOMAIN status :
          /\ status[j] = "pending"
          /\ fields[j].goals # <<>>
          /\ fields[j].projects # <<>>

\* What a run without the last-used option publishes in workspace w when
\* the requests of every batch settle in listing order and got holds the
\* items <<c, j>> whose settings response is OK: buildResourceMap for each
\* category in turn, merge, attach
RECURSIVE ScanItems(_, _, _, _, _, _, _)
ScanItems(w, got, c, j, m, extra, known) ==
    IF j > Len(w.listing[c]) THEN [map |-> m, extraFields |-> extra]
    ELSE LET r == IF <<c, j>> \in got
                  THEN ProcessSettings(m, extra, known, w.listing[c][j],
                                       SettingsResponse(w, c, w.listing[c][j].gid))
                  ELSE [map |-> m, extraFields |-> extra]
         IN  ScanItems(w, got, c, j + 1, r.map, r.extraFields, known)
RECURSIVE ScanFrom(_, _, _, _, _, _)
ScanFrom(w, got, c, flds, known, maps) ==
    IF c > 3 THEN AttachAssociations(flds, maps)
    ELSE LET r == ScanItems(w, got, c, 1, EmptyMap, <<>>, known)
         IN  ScanFrom(w, got, c + 1, MergeFields(flds, r.extraFields),
                      MergeKnown(known, r.extraFields), [maps EXCEPT ![c] = r.map])
InOrderFields(w, got) ==
    ScanFrom(w, got, 1, w.lib, GidsOf(w.lib), [c \in Categories |-> EmptyMap])

\* The same for a run without failure
CleanFields(w) ==
    InOrderFields(w, {<<c, j>> : c \in Categories, j \in 1..(MaxProjects + 1)})

\* Listed resources of category c whose settings this run did not obtain:
\* the listing failed or the settings request of an item naming it did
Unfetched(c) ==
    {upstream.listing[c][j].gid :
        j \in {l \in 1..Len(upstream.listing[c]) : <<c, l>> \notin fetched}}
Degraded == \E c \in Categories : Unfetched(c) # {}

\* The workspace that differs from upstream in that the resources whose
\* settings were not obtained truly have no attachments
Emptied ==
    [upstream EXCEPT !.settings =
        [c \in Categories |->
            [r \in DOMAIN upstream.settings[c] |->
                IF r \in Unfetched(c) THEN <<>> ELSE upstream.settings[c][r]]]]

\* C24: the result published by a run in which a category listing or a
\* settings request failed differs in what the page shows (the exported
\* fields with their flags and association lists, or the error banner) from
\* the result of a run without failure in the workspace where the affected
\* resources truly have no attachments.
C24_DegradedDistinguishable ==
    (Published /\ Degraded /\ lastUsedOpt = "off") =>
        \/ customFields # CleanFields(Emptied)
        \/ ~errorBannerHidden

\* C24 divergence reached: the settings request of a project that carries a
\* field failed, and the published result is the one of the workspace in
\* which that project carries nothing.
C24_Witness ==
    /\ Published /\ lastUsedOpt = "off" /\ errorBannerHidden
    /\ \E r \in Unfetched(1) : upstream.settings[1][r] # <<>>
    /\ customFields = CleanFields(Emptied)

\* The terminal UI state of a run: the handler has returned, the load button
\* is enabled again, and the page shows the results at 100% or the error
\* banner
Terminal ==
    /\ pc = "idle"
    /\ ~loadBtnDisabled
    /\ \/ progress = 100 /\ ~tableContainerHidden
       \/ ~errorBannerHidden

\* C25: when every request settles and every timer fires, a run that was
\* triggered reaches a terminal UI state: the results at 100% or the error
\* banner, with the load button enabled again.
C25_RunsToCompletion == (pc # "idle") ~> Terminal

\* C25 witness: a run has ended with its results published after batches of
\* settings requests and of task searches.
C25_Witness ==
    /\ Terminal /\ run = 1
    /\ progress = 100 /\ errorBannerHidden
    /\ lastUsedLoaded
    /\ Len(customFields) > LU_CONCURRENCY

\* Field payloads in the settings responses that category c's pass has
\* obtained so far
ObservedPayloads(c) ==
    UNION {{SettingsResponse(upstream, c, r)[k].custom_field :
               k \in 1..Len(SettingsResponse(upstream, c, r))} :
           r \in {q \in Listed(c) : FetchedItems(c, q) # {}}}

\* C26: throughout the settings loop of a category pass, and so in what the
\* pass returns, extraFields holds exactly the identities that an obtained
\* settings response reports as not global and that are not in the
\* knownGids the pass was called with; each of them once, with a payload
\* that was observed for it and that reports it as not global. The pass
\* itself leaves knownGids as it was passed in.
C26_StatePart ==
    pc \in {"settings", "sleep"} =>
        /\ GidsOf(extraFields) =
              {p.gid : p \in {q \in ObservedPayloads(cat) :
                                 ~q.is_global_to_workspace /\ q.gid \notin knownGids}}
        /\ Cardinality(GidsOf(extraFields)) = Len(extraFields)
        /\ \A k \in 1..Len(extraFields) :
              /\ extraFields[k] \in ObservedPayloads(cat)
              /\ ~extraFields[k].is_global_to_workspace
C26_StepPart ==
    (pc \in {"listing", "settings", "sleep"} /\ pc' \in {"settings", "sleep"}) =>
        /\ cat' = cat
        /\ knownGids' = knownGids
C26_ExtraFieldsExact == [](C26_StatePart) /\ [][C26_StepPart]_vars

\* C26 witness: the pass has obtained two payloads of one unknown field, one
\* reporting it as global and one as not global, and has recorded it once.
C26_Witness ==
    /\ pc = "settings" /\ Pending(status) = {}
    /\ Len(extraFields) = 1
    /\ \E p, q \in ObservedPayloads(cat) :
          /\ p.gid = q.gid /\ q.gid \notin knownGids
          /\ p.is_global_to_workspace /\ ~q.is_global_to_workspace

\* Entry e of a category c list is the entry of a listed resource, with the
\* visibility that the listing supplied for it and none when it supplied none
CarriesListedPrivacy(e, c) ==
    /\ \E j \in 1..Len(upstream.listing[c]) :
          /\ upstream.listing[c][j].gid = e.gid
          /\ upstream.listing[c][j].privacy_setting = e.privacy
    /\ c = 1 <=> e.privacy \in {"public_to_workspace", "private"}
    /\ c # 1 <=> e.privacy = Undefined

\* C27: every association entry, in the map of the running category pass
\* and in the published lists, carries the privacy that the listing supplied
\* for its resource: a project entry carries the project's privacy setting,
\* a portfolio or goal entry carries none.
C27_PrivacyOnProjectsOnly ==
    /\ pc \in {"settings", "sleep"} =>
          \A g \in DOMAIN map :
              \A k \in 1..Len(map[g]) : CarriesListedPrivacy(map[g][k], cat)
    /\ Published =>
          \A f \in 1..Len(customFields) : \A c \in Categories :
              \A k \in 1..Len(ListOf(customFields[f], c)) :
                  CarriesListedPrivacy(ListOf(customFields[f], c)[k], c)

\* C27 witness: a published field with the entries of a public project, of a
\* private project and of a goal.
C27_Witness ==
    /\ Published
    /\ \E f \in 1..Len(customFields) :
          /\ {customFields[f].projects[k].privacy :
                 k \in 1..Len(customFields[f].projects)} =
             {"public_to_workspace", "private"}
          /\ Len(customFields[f].goals) = 1
          /\ customFields[f].goals[1].privacy = Undefined

\* The timestamp and the task id of the top result of a search, nulls when
\* the search found no task
TopOf(data) ==
    IF Len(data) > 0 THEN <<data[1].modified_at, data[1].gid>> ELSE <<Null, Null>>

\* C28: an on-demand request that settles marks its target as checked
\* whatever its outcome, the field for the single-field query and the
\* project entry for the per-project query; the target then holds the
\* timestamp and the task id of the top result when the request succeeded
\* and nulls when it did not. Per-location requests are in flight for
\* project entries only, and only project entries are ever marked.
C28_StatePart ==
    /\ \A q \in onDemand : q.c \in {0, 1}
    /\ \A r \in locInfo :
          /\ r.c = 1
          /\ <<r.last_used, r.last_used_task_gid>> \in
                {TopOf(LocSearchData(customFields[r.f].gid,
                                     customFields[r.f].projects[r.k].gid)),
                 <<Null, Null>>}
    /\ \A f \in 1..Len(customFields) :
          customFields[f].lastUsedFetched = "true" =>
              <<customFields[f].last_used, customFields[f].last_used_task_gid>> \in
                  {TopOf(upstream.tasks[customFields[f].gid]), <<Null, Null>>}
C28_StepPart ==
    \A q \in onDemand \ onDemand' :
        LET failed == faults' > faults
        IN  IF q.c = 0
            THEN /\ customFields'[q.f].lastUsedFetched = "true"
                 /\ <<customFields'[q.f].last_used, customFields'[q.f].last_used_task_gid>> =
                       IF failed THEN <<Null, Null>>
                       ELSE TopOf(upstream.tasks[customFields[q.f].gid])
            ELSE \E r \in locInfo' :
                    /\ r.f = q.f /\ r.c = q.c /\ r.k = q.k
                    /\ <<r.last_used, r.last_used_task_gid>> =
                          IF failed THEN <<Null, Null>>
                          ELSE TopOf(LocSearchData(customFields[q.f].gid,
                                                   ListOf(customFields[q.f], q.c)[q.k].gid))
C28_OnDemandMarksChecked == [](C28_StatePart) /\ [][C28_StepPart]_vars

\* C28 witness: the single-field query of a field that is in use failed and
\* left nulls, the query for one of its projects found a task, every
\* request has settled, and the field's goal was not queried.
C28_Witness ==
    /\ onDemand = {} /\ faults = 1
    /\ \E f \in 1..Len(customFields) :
          /\ customFields[f].lastUsedFetched = "true"
          /\ customFields[f].last_used = Null
          /\ customFields[f].last_used_task_gid = Null
          /\ upstream.tasks[customFields[f].gid] # <<>>
          /\ Len(customFields[f].goals) = 1
          /\ \A k \in 1..Len(customFields[f].projects) : LocFetched(f, 1, k)
          /\ \E r \in locInfo : r.f = f /\ r.last_used = FoundTask.modified_at

\* C29: after a successful run every identity for which one of the three
\* association maps holds an entry is the identity of a published field,
\* also when the settings payload reports the field as global and the
\* library does not hold it.
C29_AssociatedFieldsPublished ==
    Published =>
        \A c \in Categories :
            \A g \in DOMAIN catMaps[c] :
                catMaps[c][g] # <<>> => g \in GidsOf(customFields)

\* C29 divergence reached: no request failed, a project carries a field
\* whose payload reports it as global, the library does not hold it, the
\* projects map has its entry and the published fields do not have it.
C29_Witness ==
    /\ Published /\ faults = 0
    /\ \E g \in DOMAIN catMaps[1] :
          /\ catMaps[1][g] # <<>>
          /\ g \notin GidsOf(upstream.lib)
          /\ g \notin GidsOf(customFields)
          /\ \E r \in Listed(1) : Attached(1, r, g) # {} /\ AttachedLocal(1, r, g) = {}

\* The resources that an association list names
ResourcesOf(list) == {list[k].gid : k \in 1..Len(list)}

\* Two results hold the same identities and, per identity and category,
\* name the same resources
SameSets(a, b) ==
    /\ GidsOf(a) = GidsOf(b)
    /\ \A k \in 1..Len(a) : \A l \in 1..Len(b) :
          a[k].gid = b[l].gid =>
              \A c \in Categories :
                  ResourcesOf(ListOf(a[k], c)) = ResourcesOf(ListOf(b[l], c))

\* C30: the identities of the published fields and, per field and category,
\* the resources its list names are those of the run in which the same
\* responses arrive in listing order (the requests that failed answering
\* with nothing): they depend on the responses only, not on the order in
\* which the concurrent settings requests of a batch complete.
C30_OrderIndependentSets ==
    Published => SameSets(customFields, InOrderFields(upstream, fetched))

\* C30 witness: the settings requests of one batch completed against the
\* listing order; the lists of the published field differ from those of the
\* in-order run and name the same resources.
C30_Witness ==
    /\ Published /\ faults = 0
    /\ \E k \in 1..Len(customFields) :
          /\ Len(customFields[k].projects) = 2
          /\ customFields[k].projects[1].gid = 2
          /\ customFields[k].projects[2].gid = 1
          /\ customFields[k].projects # InOrderFields(upstream, fetched)[k].projects
          /\ customFields[k].gid \notin GidsOf(upstream.lib)

\* C31: while a run is in flight the load button is disabled: the click that
\* starts a run finds the button enabled and no run in flight and disables
\* it, and the button is enabled again only by the step in which the run
\* ends. A click on the enabled button therefore never starts a second run
\* beside one in flight.
C31_StatePart == pc # "idle" => loadBtnDisabled
C31_StepPart ==
    /\ run' # run =>
          /\ ~loadBtnDisabled /\ pc = "idle"
          /\ loadBtnDisabled' /\ pc' # "idle"
          /\ run' = run + 1
    /\ (loadBtnDisabled /\ ~loadBtnDisabled') => (pc # "idle" /\ pc' = "idle")
C31_ButtonDisabledInFlight == [](C31_StatePart) /\ [][C31_StepPart]_vars

\* C31 witness: a run is waiting for its task searches, the button is
\* disabled and the user has a click left.
C31_Witness ==
    /\ run >= 1 /\ clicks > 0
    /\ pc = "search" /\ Pending(status) # {}
    /\ loadBtnDisabled

\* Two on-demand requests have the same target: the same field, or the same
\* association entry of the same field
SameTarget(p, q) == p.f = q.f /\ p.c = q.c /\ p.k = q.k

\* The target of request q is marked as checked
TargetMarked(q) ==
    IF q.c = 0 THEN customFields[q.f].lastUsedFetched = "true"
    ELSE LocFetched(q.f, q.c, q.k)

\* C32: for one loaded data set no target has two on-demand requests: no two
\* requests in flight have the same target, and a request is issued only for
\* a target that has no request in flight and was not marked by a settled
\* one, however often the modal is opened, closed and opened again.
C32_StatePart == \A p, q \in onDemand : SameTarget(p, q) => p = q
C32_StepPart ==
    \A q \in onDemand' \ onDemand :
        /\ ~TargetMarked(q)
        /\ \A p \in onDemand : ~SameTarget(p, q)
C32_OneOnDemandRequestPerTarget == [](C32_StatePart) /\ [][C32_StepPart]_vars

\* C32 divergence reached: the modal of a field was opened, closed and
\* opened again before the first requests settled; two single-field
\* requests and two requests for the same project are in flight.
C32_Witness ==
    /\ opens = 2 /\ ~modalHidden
    /\ \E p, q \in onDemand : p # q /\ SameTarget(p, q) /\ p.c = 0
    /\ \E p, q \in onDemand : p # q /\ SameTarget(p, q) /\ p.c = 1

\* C33: the step in which an on-demand request settles changes the modal's
\* Last Used, or a Last Used cell of its locations table, only if the modal
\* is open and was rendered for the field the request was issued for; a
\* cell is changed only in the row of the request.
C33_StepPart ==
    \A q \in onDemand \ onDemand' :
        /\ modalLastUsed' # modalLastUsed =>
              (~modalHidden /\ modalField = q.f /\ q.c = 0)
        /\ modalLocCells' # modalLocCells =>
              /\ ~modalHidden /\ modalField = q.f /\ q.c # 0
              /\ \A x \in 1..Len(modalLocCells) :
                    modalLocCells'[x] # modalLocCells[x] => x = q.idx + 1
C33_LateResponseNotShown == [][C33_StepPart]_vars

\* C33 divergence reached: the modal is open for the last field and its
\* Last Used holds what the late response for the first field, whose request
\* failed, wrote: the last field is in use and still unchecked.
C33_Witness ==
    /\ ~modalHidden /\ opens = 2
    /\ Len(customFields) > 1 /\ modalField = Len(customFields)
    /\ customFields[modalField].lastUsedFetched # "true"
    /\ customFields[1].lastUsedFetched = "true"
    /\ modalLastUsed = "Never / Unknown"
    /\ \E q \in onDemand : q.f = modalField /\ q.c = 0

\* A last-used query was attempted for field f: the bulk enrichment wrote
\* the timestamp of the top result, or null when the search found nothing
\* or failed
QueryAttempted(f) == f.last_used # Undefined

\* C34: whenever state.lastUsedLoaded is true no run is in flight and every
\* field of state.customFields has had its last-used query attempted; the
\* click that starts a run resets the flag, and the flag becomes true only in
\* the step in which the last enrichment batch of the run has settled (or
\* the run has no field to enrich), the step that publishes the enriched
\* fields of that run.
C34_StatePart ==
    lastUsedLoaded =>
        /\ pc = "idle" /\ lastUsedOpt = "on"
        /\ \A k \in 1..Len(customFields) : QueryAttempted(customFields[k])
C34_StepPart ==
    /\ run' # run => ~lastUsedLoaded'
    /\ (~lastUsedLoaded /\ lastUsedLoaded') =>
          /\ pc' = "idle" /\ ~tableContainerHidden'
          /\ IF pc = "search"
             THEN /\ Len(status) = Len(fields)
                  /\ \A j \in DOMAIN status : status[j] \in Settled
                  /\ customFields' = fields
             ELSE /\ pc \in {"listing", "settings"} /\ cat = 3
                  /\ customFields' = <<>>
C34_LoadedMeansAttempted == [](C34_StatePart) /\ [][C34_StepPart]_vars

\* C34 witness: a run with the option published more fields than one
\* enrichment batch holds, one of its searches failed, after an earlier run
\* of the session.
C34_Witness ==
    /\ lastUsedLoaded /\ run = MaxRuns
    /\ Len(customFields) > LU_CONCURRENCY
    /\ \E k \in 1..Len(customFields) :
          /\ customFields[k].last_used = Null
          /\ upstream.tasks[customFields[k].gid] # <<>>

\* The step in which a run publishes its result
RunPublishes == pc # "idle" /\ pc' = "idle" /\ ~tableContainerHidden'

\* The step in which a run ends by a failure: handleLoad returns without
\* having shown the table
RunFails == pc # "idle" /\ pc' = "idle" /\ tableContainerHidden'

\* C35: state.customFields and state.filtered change only in the step in
\* which a run publishes its result; while a run is in flight the
\* statistics bar, the toolbar and the table are hidden, and the step in
\* which a run fails leaves the data set and the rows as the run found them
\* and the three hidden.
C35_StatePart ==
    pc # "idle" => (statsBarHidden /\ toolbarHidden /\ tableContainerHidden)
C35_StepPart ==
    /\ (customFields' # customFields \/ filtered' # filtered) => RunPublishes
    /\ RunFails =>
          /\ customFields' = customFields /\ filtered' = filtered
          /\ statsBarHidden' /\ toolbarHidden' /\ tableContainerHidden'
          /\ ~errorBannerHidden'
C35_FailedRunKeepsData == [](C35_StatePart) /\ [][C35_StepPart]_vars

\* C35 witness: after a run that published fields, a run failed in a
\* category listing: the data set and the rows are those of the earlier run
\* and the table is hidden.
C35_Witness ==
    /\ pc = "idle" /\ run = MaxRuns
    /\ errorMessage = "Failed to fetch" /\ ~errorBannerHidden
    /\ "listing" \in issued
    /\ tableContainerHidden /\ statsBarHidden /\ toolbarHidden
    /\ Len(customFields) > 1 /\ Len(filtered) = Len(customFields)
    /\ \E k \in 1..Len(customFields) : customFields[k].projects # <<>>


\* A request arrives in this step and is a callback / a proxied request
CallbackArrives ==
    /\ arrivals' = arrivals + 1
    /\ \/ reply'.id = arrivals' /\ reply'.route = "callback"
       \/ \E r \in inflight' \ inflight : r.route = "callback"
ApiArrives ==
    /\ arrivals' = arrivals + 1
    /\ \/ reply'.id = arrivals' /\ reply'.route = "api"
       \/ \E r \in inflight' \ inflight : r.route = "api"

\* The store holds tokens for session s that it did not hold before the step
TokensWritten(s) ==
    /\ s \in DOMAIN sessions'
    /\ sessions'[s].accessToken # Unset
    /\ s \in DOMAIN sessions => sessions'[s].accessToken # sessions[s].accessToken

\* C36: /auth/callback performs the token exchange, and stores tokens in the
\* session, only for a request whose state parameter is a value that an
\* earlier /auth/login stored in the same session; every other callback is
\* answered with 403 (or a redirect, on an upstream error) and leaves the
\* stored sessions as they are; and no stored value is accepted twice.
C36_StatePart ==
    /\ \A r \in inflight :
          r.route = "callback" => <<r.sid, r.sent>> \in storedStates
    /\ \A a, b \in 1..Len(accepted) : accepted[a] = accepted[b] => a = b
C36_StepPart ==
    /\ (CallbackArrives /\ inflight' = inflight) =>
          /\ reply'.status \in {403, 302}
          /\ reply'.text # "/"
          /\ sessions' = sessions
    /\ \A s \in 1..MaxSessions :
          (TokensWritten(s) /\ reply' # reply /\ reply'.route = "callback") =>
             \E r \in inflight \ inflight' :
                r.id = reply'.id /\ <<r.sid, r.sent>> \in storedStates
C36_StateCheckedOnce == [](C36_StatePart) /\ [][C36_StepPart]_vars

\* C37: a proxied /api request of a session without access token is answered
\* with 401 and causes no upstream request, neither a refresh nor a call; and
\* so is every /api request that bears the cookie of a session that
\* /auth/logout has destroyed.
Rejected ==
    /\ reply'.id = arrivals' /\ reply'.status = 401
    /\ inflight' = inflight /\ minted' = minted
C37_StepPart ==
    /\ (ApiArrives /\ ReqSession.accessToken = Unset) => Rejected
    /\ (ApiArrives /\ cookie \in loggedOut) => Rejected
C37_NoTokenNoUpstream == [][C37_StepPart]_vars

\* C38: of one session at most one token refresh is outstanding at any time;
\* and a proxied request that replaces the stored tokens by those of its
\* refresh sent the refresh token that the store held until then.
Refreshing(s) == {r \in inflight : r.at = "refresh" /\ r.sid = s}
C38_StatePart ==
    \A s \in 1..MaxSessions : Cardinality(Refreshing(s)) <= 1
C38_StepPart ==
    \A s \in 1..MaxSessions :
       (TokensWritten(s) /\ reply' # reply /\ reply'.route = "api") =>
          /\ s \in DOMAIN sessions
          /\ \E r \in inflight \ inflight' :
                r.id = reply'.id /\ r.sent = sessions[s].refreshToken
C38_OneRefreshOutstanding == [](C38_StatePart) /\ [][C38_StepPart]_vars

====
